---- MODULE Spec2Model ----
(***************************************************************************)
(* Aite.studio cloud build server.  The model follows src/server.js (the   *)
(* current variant) handler by handler, and the oldest variant             *)
(* (src/unnamed/part_000) where the variants differ in what they promise.  *)
(*                                                                         *)
(* Strings are sequences of one-character strings; the JavaScript value    *)
(* undefined is the one-element sequence Undefined, which is no string.    *)
(* File sizes are counted in MiB.                                          *)
(***************************************************************************)
EXTENDS Integers, Sequences, FiniteSets, TLC

\* ------------------------------------------------------------------ bounds
MaxClock == 1        \* Date.now() ranges over 0..MaxClock
RandSpace == 2       \* crypto.randomBytes(4) ranges over 0..RandSpace-1
NumUrls == 2         \* distinct secure_url values the media host hands out
MaxRuns == 2         \* workflow runs in one answer of the runs query
MaxAssets == 2       \* assets of one release
NumBuilds == 2       \* build identifiers a status request may ask for
NumClients == 2      \* requests in flight at once (concurrency specification)
MaxIndex == 2        \* chunk indexes in play: 0..MaxIndex
MaxPkgLen == 2       \* length of the package names tried one by one
MaxVerLen == 4       \* length of the text after the comparison sign
MaxEntries == 2      \* entries of an archive with several entries

\* ------------------------------------------------------- program constants
MAX_FILE_SIZE == 500
MAX_ICON_SIZE == 10
LARGE_ZIP_SIZE == 50
MAX_FILES == 2
HEX_WIDTH == 8
MAX_CHUNKS == 100
RATE_LIMIT_MAX == 10

\* ----------------------------------------------------------------- strings
Undefined == <<"undefined">>

LowerSeq == <<"a","b","c","d","e","f","g","h","i","j","k","l","m",
              "n","o","p","q","r","s","t","u","v","w","x","y","z">>
UpperSeq == <<"A","B","C","D","E","F","G","H","I","J","K","L","M",
              "N","O","P","Q","R","S","T","U","V","W","X","Y","Z">>
DigitSeq == <<"0","1","2","3","4","5","6","7","8","9">>
HexSeq == <<"0","1","2","3","4","5","6","7","8","9","a","b","c","d","e","f">>

Range(s) == {s[i] : i \in DOMAIN s}
IsLetter(c) == c \in Range(LowerSeq) \cup Range(UpperSeq)
IsDigit(c) == c \in Range(DigitSeq)
IsAlnum(c) == IsLetter(c) \/ IsDigit(c)
IsSpace(c) == c \in {" ", "\t", "\n"}

\* String.prototype.toLowerCase, one character
ToLowerChar(c) ==
  IF c \in Range(UpperSeq)
  THEN LowerSeq[CHOOSE i \in DOMAIN UpperSeq : UpperSeq[i] = c]
  ELSE c

ToLowerCase(s) == [i \in DOMAIN s |-> ToLowerChar(s[i])]

\* String.prototype.trim
RECURSIVE TrimLeft(_)
TrimLeft(s) == IF s # <<>> /\ IsSpace(Head(s)) THEN TrimLeft(Tail(s)) ELSE s

RECURSIVE TrimRight(_)
TrimRight(s) ==
  IF s # <<>> /\ IsSpace(s[Len(s)]) THEN TrimRight(SubSeq(s, 1, Len(s) - 1)) ELSE s

Trim(s) == TrimRight(TrimLeft(s))

\* .replace(/[^a-z0-9]/gi, '_')
ReplaceNonAlnum(s) == [i \in DOMAIN s |-> IF IsAlnum(s[i]) THEN s[i] ELSE "_"]

\* .replace(/_+/g, '_')
RECURSIVE CollapseUnderscores(_)
CollapseUnderscores(s) ==
  IF Len(s) < 2 THEN s
  ELSE IF s[1] = "_" /\ s[2] = "_" THEN CollapseUnderscores(Tail(s))
  ELSE <<s[1]>> \o CollapseUnderscores(Tail(s))

\* a JavaScript value is falsy: undefined or the empty string
Falsy(v) == v = Undefined \/ v = <<>>

\* String(name || '')
StringOrEmpty(name) == IF Falsy(name) THEN <<>> ELSE name

sanitizeFilename(name) ==
  ToLowerCase(CollapseUnderscores(ReplaceNonAlnum(Trim(StringOrEmpty(name)))))

\* String(v): the text of a value
JsString(v) ==
  IF v = Undefined THEN <<"u","n","d","e","f","i","n","e","d">> ELSE v

\* [a-zA-Z0-9_\.]*$ matched against s from its i-th character on
RECURSIVE MatchTail(_, _)
MatchTail(s, i) ==
  IF i > Len(s) THEN TRUE
  ELSE IF IsAlnum(s[i]) \/ s[i] \in {"_", "."} THEN MatchTail(s, i + 1)
  ELSE FALSE

\* isValidPackageName with the pattern /^[a-zA-Z][a-zA-Z0-9_\.]*/, no $
isValidPackageNameNoEnd(pkg) ==
  LET s == JsString(pkg) IN s # <<>> /\ IsLetter(s[1])

\* /^[a-zA-Z][a-zA-Z0-9_\.]*$/.test(pkg): test() converts its argument with
\* String(), so undefined is tested as the text "undefined", which matches.
isValidPackageName(pkg) ==
  LET s == JsString(pkg) IN s # <<>> /\ IsLetter(s[1]) /\ MatchTail(s, 2)

\* s.includes(t)
Includes(s, t) ==
  \E i \in 0..(Len(s) - Len(t)) : SubSeq(s, i + 1, i + Len(t)) = t

\* s.endsWith(t)
EndsWith(s, t) ==
  Len(s) >= Len(t) /\ SubSeq(s, Len(s) - Len(t) + 1, Len(s)) = t

\* Number.prototype.toString(), decimal
RECURSIVE DecStr(_)
DecStr(n) ==
  IF n < 10 THEN <<DigitSeq[n + 1]>>
  ELSE DecStr(n \div 10) \o <<DigitSeq[(n % 10) + 1]>>

\* Buffer.toString('hex') of a buffer of w/2 bytes holding the number n
RECURSIVE HexStr(_, _)
HexStr(n, w) ==
  IF w = 0 THEN <<>>
  ELSE HexStr(n \div 16, w - 1) \o <<HexSeq[(n % 16) + 1]>>

Times == 0..MaxClock
RandomBytes == 0..(RandSpace - 1)

\* `${Date.now()}-${crypto.randomBytes(4).toString('hex')}`
generateBuildId(t, b) == DecStr(t) \o <<"-">> \o HexStr(b, HEX_WIDTH)

\* ------------------------------------------------------------ request data
AppNames == {Undefined, <<>>, <<" ","M","y","-","-","A","p","p">>}
PackageNames == {Undefined, <<"c","o","m",".","A","_","1">>, <<"1","c","o","m">>}

\* a file part: the form field, the declared mimetype, the original name's
\* extension, the size in MiB
FileKinds ==
  { [mimetype |-> "image/png", ext |-> ".png"],
    [mimetype |-> "application/zip", ext |-> ".zip"],
    [mimetype |-> "text/plain", ext |-> ".zip"],
    [mimetype |-> "text/plain", ext |-> ".txt"] }

Part(f, k, n) ==
  [field |-> f, mimetype |-> k.mimetype, ext |-> k.ext, size |-> n]

Parts ==
  {Part("icon", k, n) : k \in FileKinds, n \in {1, MAX_ICON_SIZE + 1}}
    \cup {Part("projectZip", k, n) :
            k \in FileKinds, n \in {1, LARGE_ZIP_SIZE + 1, MAX_FILE_SIZE + 1}}
    \cup {Part("other", [mimetype |-> "text/plain", ext |-> ".txt"], 1)}

\* a stored file is its part and the temporary directory it was written to
NoFile == [field |-> "none", mimetype |-> "", ext |-> "", size |-> 0, dir |-> 0]
Stored(p, d) ==
  [field |-> p.field, mimetype |-> p.mimetype, ext |-> p.ext, size |-> p.size,
   dir |-> d]
NoFiles == [icon |-> NoFile, projectZip |-> NoFile]

\* the file parts of a request, in the order sent; moreFiles: further file
\* parts follow the first MAX_FILES ones
PartSeqs == UNION {[1..n -> Parts] : n \in 0..MAX_FILES}

BuildRequests ==
  { r \in [appName : AppNames, packageName : PackageNames,
           parts : PartSeqs, moreFiles : BOOLEAN] :
      r.moreFiles => Len(r.parts) = MAX_FILES }

\* package names over a small alphabet, and the requests that carry them with
\* either no file or a well-formed icon and archive
PkgAlphabet == {"a", "Z", "1", "_", ".", "-"}
PkgStrings == UNION {[1..n -> PkgAlphabet] : n \in 0..MaxPkgLen}

PackageRequests ==
  [appName : AppNames, packageName : PkgStrings \cup {Undefined},
   parts : { <<>>,
             << Part("icon", [mimetype |-> "image/png", ext |-> ".png"], 1),
                Part("projectZip",
                     [mimetype |-> "application/zip", ext |-> ".zip"], 1) >> },
   moreFiles : {FALSE}]

NoRequest ==
  [appName |-> Undefined, packageName |-> Undefined,
   parts |-> <<>>, moreFiles |-> FALSE]

\* process.env: TRUE when the value is set (and not empty)
Envs == [owner : BOOLEAN, repo : BOOLEAN, token : BOOLEAN]

Urls == 1..NumUrls

\* ---------------------------------------------------------------- responses
NoBody == [success |-> FALSE]
NoResp == [status |-> 0, body |-> NoBody]

\* makeErrorResponse(code, message, details): the timestamp is left out
makeErrorResponse(code, message) ==
  [success |-> FALSE, error |-> message, code |-> code]

\* res.status(n).json(body)
Reply(n, body) == [status |-> n, body |-> body]

\* ------------------------------------------------------------------- state
VARIABLES
  kind,        \* the request being served: "idle", "build" or "status"
  pc,          \* where its handler stands
  req,         \* build: the multipart request as sent
  files,       \* build: req.files
  tempDir,     \* build: req.tempDir (0: undefined)
  dirs,        \* the temporary directories of this request that exist
  made,        \* how many temporary directories this request created
  mwErr,       \* the error multer handed to next(err)
  env,         \* process.env: which of owner, repo, token are set
  requestId,   \* build: requestId
  iconUpload,  \* build: iconUpload.secure_url (0: not set)
  zipUpload,   \* build: zipUpload.secure_url (0: not set)
  calls,       \* the outbound calls of this request, in order
  out,         \* build: the response the handler is about to send
  cleaned,     \* build: cleanupTemp(tempDir) has returned
  resp,        \* the response sent (status 0: none yet)
  buildId,     \* status: req.params.buildId
  run,         \* status: the workflow run found for buildId
  release,     \* status: the answer of the release query
  github       \* what the CI platform holds, when that no longer changes

buildVars ==
  <<kind, pc, req, files, tempDir, dirs, made, mwErr, env, requestId,
    iconUpload, zipUpload, calls, out, cleaned, resp>>
statusVars == <<buildId, run, release, github>>

VARIABLES
  variant,     \* concurrency: the variant that runs, "server.js" or "part_000"
  now,         \* concurrency: the clock, Date.now()
  cpc,         \* concurrency: where each client's build request stands
  cid          \* concurrency: the identifier each request was given

concVars == <<variant, now, cpc, cid>>

VARIABLES
  chunks,      \* chunked upload: the chunk files on disk, by upload id
  merged,      \* chunked upload: the merged output file, by upload id
  upload,      \* chunked upload: the parameters of the request being served
  served       \* build requests of the client watched, in the current window

diskVars == <<chunks, merged>>
sideVars == <<chunks, merged, upload, served>>

VARIABLES
  tmp,         \* temporary files: the files on disk, their bytes by path
  tpc,         \* temporary files: where each client's build request stands
  tpath,       \* temporary files: the paths each request keeps its files at
  sent         \* temporary files: the bytes each request uploaded

tmpVars == <<tmp, tpc, tpath, sent>>

VARIABLES
  zipBuffer,       \* version detection: the archive handed to the function
  flutterVersion,  \* version detection: what detectFlutterVersion returned
  vpc              \* version detection: "idle", "detect" or "done"

verVars == <<zipBuffer, flutterVersion, vpc>>

vars == <<buildVars, statusVars, concVars, sideVars, tmpVars, verVars>>

NoError == [multer |-> FALSE, code |-> ""]
MulterError(code) == [multer |-> TRUE, code |-> code]
PlainError(msg) == [multer |-> FALSE, code |-> msg]

\* ------------------------------------------------------------ multer setup
IsImageMime(m) == m \in {"image/png"}
ZipMimes ==
  {"application/zip", "application/x-zip", "application/x-zip-compressed",
   "application/octet-stream"}

\* fileFilter: "" when the file is accepted, the error's message otherwise
fileFilter(p) ==
  IF p.field = "icon"
  THEN IF ~IsImageMime(p.mimetype) THEN "Icon must be an image file" ELSE ""
  ELSE IF p.field = "projectZip"
  THEN IF ~(p.mimetype \in ZipMimes \/ p.ext = ".zip")
       THEN "Project file must be a ZIP archive" ELSE ""
  ELSE "Unexpected field"

\* cleanupTemp(tempPath): the directories left; rmOk: fs.rm succeeded
cleanupTemp(ds, tempPath, rmOk) ==
  IF tempPath # 0 /\ tempPath \in ds /\ rmOk THEN ds \ {tempPath} ELSE ds

\* cleanupTemp throws: never, the try block holds its whole body and the catch
\* only logs the error
cleanupTempThrows(ds, tempPath, rmOk) == FALSE

\* upload.fields([...]) with diskStorage, fileFilter and the limits, over the
\* file parts from the i-th on.  st: files, tempDir, dirs, made, err.
\* mkdirOk: fs.mkdir of createTempDir succeeds.
RECURSIVE MulterFiles(_, _, _, _)
MulterFiles(parts, i, st, mkdirOk) ==
  IF i > Len(parts) THEN st
  ELSE
    LET p == parts[i] IN
    IF p.field \notin {"icon", "projectZip"} \/ st.files[p.field] # NoFile
    THEN [st EXCEPT !.err = MulterError("LIMIT_UNEXPECTED_FILE")]
    ELSE IF fileFilter(p) # ""
    THEN [st EXCEPT !.err = PlainError(fileFilter(p))]
    ELSE IF ~mkdirOk
    THEN [st EXCEPT !.err = PlainError("mkdir failed")]
    ELSE
      LET d == st.made + 1
          st2 == [st EXCEPT !.tempDir = d, !.dirs = @ \cup {d}, !.made = d]
      IN IF p.size > MAX_FILE_SIZE
         THEN [st2 EXCEPT !.err = MulterError("LIMIT_FILE_SIZE")]
         ELSE MulterFiles(parts, i + 1,
                          [st2 EXCEPT !.files[p.field] = Stored(p, d)], mkdirOk)

MulterResult(r, mkdirOk) ==
  LET st0 == [files |-> NoFiles, tempDir |-> 0, dirs |-> {}, made |-> 0,
              err |-> NoError]
      st == MulterFiles(r.parts, 1, st0, mkdirOk)
  IN IF st.err = NoError /\ r.moreFiles
     THEN [st EXCEPT !.err = MulterError("LIMIT_FILE_COUNT")]
     ELSE st

\* the error-handling middleware
ErrorReply(err) ==
  IF err.multer
  THEN IF err.code = "LIMIT_FILE_SIZE"
       THEN Reply(413, makeErrorResponse("FILE_TOO_LARGE", "File too large"))
       ELSE IF err.code = "LIMIT_UNEXPECTED_FILE"
       THEN Reply(400, makeErrorResponse("UNEXPECTED_FIELD", "Unexpected file field"))
       ELSE Reply(400, makeErrorResponse("UPLOAD_ERROR", err.code))
  ELSE Reply(500, makeErrorResponse("SERVER_ERROR", err.code))

\* ------------------------------------------- POST /build-flutter (server.js)
\* EnvOk that forgets the repository name
EnvOkNoRepo(e) == e.owner /\ e.token

\* !(!owner || !repo || !token)
EnvOk(e) == e.owner /\ e.repo /\ e.token

\* BuildCheck without the check that both files are there
BuildCheckNoFiles(e, r, fs) ==
  IF ~EnvOk(e)
  THEN Reply(500, makeErrorResponse("MISSING_ENV", "Server misconfigured"))
  ELSE IF Falsy(r.appName) \/ Falsy(r.packageName)
  THEN Reply(400, makeErrorResponse("MISSING_FIELDS",
         "appName and packageName are required"))
  ELSE IF ~isValidPackageName(r.packageName)
  THEN Reply(400, makeErrorResponse("INVALID_PACKAGE",
         "Invalid package name format"))
  ELSE IF fs.icon.size > MAX_ICON_SIZE
  THEN Reply(400, makeErrorResponse("ICON_TOO_LARGE", "Icon file too large"))
  ELSE NoResp

\* the checks made before the first upload: the error reply of the first check
\* that fails, NoResp when all pass
BuildCheck(e, r, fs) ==
  IF ~EnvOk(e)
  THEN Reply(500, makeErrorResponse("MISSING_ENV",
         "Server misconfigured: missing GitHub repo/token environment variables"))
  ELSE IF Falsy(r.appName) \/ Falsy(r.packageName)
  THEN Reply(400, makeErrorResponse("MISSING_FIELDS",
         "appName and packageName are required"))
  ELSE IF ~isValidPackageName(r.packageName)
  THEN Reply(400, makeErrorResponse("INVALID_PACKAGE",
         "Invalid package name format"))
  ELSE IF fs.icon = NoFile \/ fs.projectZip = NoFile
  THEN Reply(400, makeErrorResponse("MISSING_FILES",
         "Both icon and projectZip files are required"))
  ELSE IF fs.icon.size > MAX_ICON_SIZE
  THEN Reply(400, makeErrorResponse("ICON_TOO_LARGE", "Icon file too large"))
  ELSE NoResp

IconPublicId(r, id) ==
  sanitizeFilename(r.packageName) \o <<"_","i","c","o","n","_">> \o id

ZipPublicId(r, id) ==
  sanitizeFilename(r.packageName) \o <<"_","s","o","u","r","c","e","_">> \o id

\* an upload to the media host: url is the secure_url of the result, 0 when
\* the upload failed
UploadCall(api, publicId, file, method, url) ==
  [api |-> api, public_id |-> publicId, file |-> file, method |-> method,
   url |-> url]

\* the ZIP is streamed from disk above 50 MiB and read into a buffer otherwise
ZipMethod(file) == IF file.size > LARGE_ZIP_SIZE THEN "stream" ELSE "buffer"

\* githubPayload with the two URLs in each other's place
githubPayloadSwapped(r, id, iconUrl, zipUrl) ==
  [event_type |-> "build-flutter",
   client_payload |->
     [app_name |-> sanitizeFilename(r.appName),
      display_name |-> r.appName,
      package_name |-> r.packageName,
      icon_url |-> zipUrl,
      zip_url |-> iconUrl,
      request_id |-> id]]

githubPayload(r, id, iconUrl, zipUrl) ==
  [event_type |-> "build-flutter",
   client_payload |->
     [app_name |-> sanitizeFilename(r.appName),
      display_name |-> r.appName,
      package_name |-> r.packageName,
      icon_url |-> iconUrl,
      zip_url |-> zipUrl,
      request_id |-> id]]

\* the repository-dispatch: status is the HTTP status of the answer, 0 when
\* axios.post threw (timeout, no connection)
DispatchCall(payload, status) ==
  [api |-> "dispatch", payload |-> payload, status |-> status]

DispatchStatuses == {200, 204, 299, 300, 401, 404, 422, 500}

\* DispatchAccepted with the upper end off by one
DispatchAcceptedTo300(status) == status >= 200 /\ status <= 300

\* resp.status >= 200 && resp.status < 300
DispatchAccepted(status) == status >= 200 /\ status < 300

BuildSuccessBody(r, id, iconUrl, zipUrl) ==
  [success |-> TRUE,
   build_id |-> id,
   safe_app_name |-> sanitizeFilename(r.appName),
   app_name |-> r.appName,
   package_name |-> r.packageName,
   icon_url |-> iconUrl,
   zip_url |-> zipUrl,
   message |-> "Build initiated successfully"]

\* what the handler answers once the dispatch returned or threw
DispatchReply(r, id, iconUrl, zipUrl, status) ==
  IF status = 0
  THEN Reply(500, makeErrorResponse("SERVER_ERROR", "Unexpected server error"))
  ELSE IF DispatchAccepted(status)
  THEN Reply(200, BuildSuccessBody(r, id, iconUrl, zipUrl))
  ELSE Reply(500, makeErrorResponse("GITHUB_DISPATCH_FAILED",
         "Failed to dispatch build to GitHub"))

\* ------------------------------------ GET /check-status/:buildId (server.js)
BuildIds == {generateBuildId(n, 0) : n \in 1..NumBuilds}

\* a workflow run as the runs query lists it
RunStates ==
  { [status |-> "queued", conclusion |-> "null"],
    [status |-> "in_progress", conclusion |-> "null"],
    [status |-> "completed", conclusion |-> "success"],
    [status |-> "completed", conclusion |-> "failure"],
    [status |-> "completed", conclusion |-> "cancelled"] }

Runs ==
  { [display_title |-> t, message |-> m, status |-> s.status,
     conclusion |-> s.conclusion] :
      t \in BuildIds \cup {Undefined}, m \in BuildIds \cup {Undefined},
      s \in RunStates }

NoRun ==
  [display_title |-> Undefined, message |-> Undefined, status |-> "none",
   conclusion |-> "none"]

RunLists == UNION {[1..n -> Runs] : n \in 0..MaxRuns}

\* r.display_title?.includes(buildId) || r.head_commit?.message?.includes(buildId)
RunMatches(r, id) ==
  \/ r.display_title # Undefined /\ Includes(r.display_title, id)
  \/ r.message # Undefined /\ Includes(r.message, id)

\* FindRun that keeps the last run that matches
FindRunLast(runs, id) ==
  IF \E i \in DOMAIN runs : RunMatches(runs[i], id)
  THEN runs[CHOOSE i \in DOMAIN runs :
              /\ RunMatches(runs[i], id)
              /\ \A j \in (i + 1)..Len(runs) : ~RunMatches(runs[j], id)]
  ELSE NoRun

\* workflow_runs.find(...): the first run that matches, NoRun when none does
FindRun(runs, id) ==
  IF \E i \in DOMAIN runs : RunMatches(runs[i], id)
  THEN runs[CHOOSE i \in DOMAIN runs :
              /\ RunMatches(runs[i], id)
              /\ \A j \in 1..(i - 1) : ~RunMatches(runs[j], id)]
  ELSE NoRun

\* NeedsRelease without the look at the conclusion
NeedsReleaseAnyConclusion(r) == r # NoRun /\ r.status = "completed"

\* the release is asked for only when the run completed with success
NeedsRelease(r) ==
  r # NoRun /\ r.status = "completed" /\ r.conclusion = "success"

AssetNames ==
  { <<"a",".","a","p","k">>, <<"a",".","t","x","t">>, <<"a","p","k">> }
Assets == [name : AssetNames, browser_download_url : Urls]
NoAsset == [name |-> <<>>, browser_download_url |-> 0]
AssetLists == UNION {[1..n -> Assets] : n \in 0..MaxAssets}

\* the release query's answer: the HTTP status (0: axios.get threw) and, with
\* it, the assets of the release
ReleaseStatuses == {200, 401, 404, 500}
ReleaseAnswers ==
  {[status |-> 200, assets |-> a] : a \in AssetLists}
    \cup {[status |-> n, assets |-> <<>>] : n \in (ReleaseStatuses \ {200}) \cup {0}}
NoRelease == [status |-> -1, assets |-> <<>>]

IsApk(a) == EndsWith(a.name, <<".","a","p","k">>)

\* assets.find(a => a.name.endsWith('.apk'))
FindApk(assets) ==
  IF \E i \in DOMAIN assets : IsApk(assets[i])
  THEN assets[CHOOSE i \in DOMAIN assets :
                /\ IsApk(assets[i])
                /\ \A j \in 1..(i - 1) : ~IsApk(assets[j])]
  ELSE NoAsset

\* the release answer yields a download
ReleaseReady(rel) == rel.status = 200 /\ FindApk(rel.assets) # NoAsset

\* what the handler answers once the run is known and, when it was asked for,
\* the release query returned or threw (rel = NoRelease: not asked)
StatusReply(id, r, rel) ==
  IF r = NoRun
  THEN Reply(200, [success |-> TRUE, completed |-> FALSE, status |-> "pending",
                   build_id |-> id, progress |-> 5])
  ELSE IF NeedsRelease(r) /\ ReleaseReady(rel)
  THEN Reply(200, [success |-> TRUE, completed |-> TRUE, status |-> "success",
                   download_url |-> FindApk(rel.assets).browser_download_url,
                   build_id |-> id])
  ELSE IF r.status = "completed" /\ r.conclusion = "failure"
  THEN Reply(200, [success |-> TRUE, completed |-> TRUE, status |-> "failed",
                   build_id |-> id])
  ELSE Reply(200, [success |-> TRUE, completed |-> FALSE, status |-> r.status,
                   build_id |-> id,
                   progress |-> IF r.status = "in_progress" THEN 50 ELSE 10])

\* The CI platform.  While builds are running its answers change from one
\* query to the next (Changing: any answer may come); once they no longer
\* change, every query about the build watched gets the same answer.
Changing ==
  [fixed |-> FALSE, watch |-> <<>>, runs |-> <<>>, release |-> NoRelease]

PollRuns == {r \in Runs : r.message = Undefined}
PollRunLists == UNION {[1..n -> PollRuns] : n \in 0..MaxRuns}
PollReleases ==
  {[status |-> 200, assets |-> a] :
     a \in {<<>>} \cup {<<[name |-> n, browser_download_url |-> 1]>> :
                          n \in AssetNames}}
    \cup {[status |-> n, assets |-> <<>>] : n \in (ReleaseStatuses \ {200}) \cup {0}}

FixedGithubs ==
  [fixed : {TRUE}, watch : BuildIds, runs : PollRunLists,
   release : PollReleases]

PolledIds(g) == IF g.fixed THEN {g.watch} ELSE BuildIds
ListedRuns(g) == IF g.fixed THEN {g.runs} ELSE RunLists
ReleaseFound(g) == IF g.fixed THEN {g.release} ELSE ReleaseAnswers

RunsCall(ok) == [api |-> "runs", ok |-> ok]
ReleaseCall(id, status) ==
  [api |-> "release", tag |-> <<"b","u","i","l","d","-">> \o id,
   status |-> status]

\* --------------------------------------------- chunked upload (server.js)
\* the upload id handed out by POST /upload/init
UploadIds == {generateBuildId(0, 0)}

\* req.params.chunkIndex, a text
ChunkIndexes == {DecStr(i) : i \in 0..MaxIndex} \cup {DecStr(MAX_CHUNKS)}

\* req.body.totalChunks; -1 stands for undefined, for which `i < totalChunks`
\* is false for every i just the same
TotalChunks == (-1)..(MaxIndex + 1) \cup {MAX_CHUNKS + 1}

\* the file part of a chunk request: none, a file under the field "chunk"
\* holding data, one larger than CHUNK_SIZE, or a file under another field
ChunkData == {"x", "y"}
ChunkParts ==
  {[kind |-> "file", data |-> d] : d \in ChunkData}
    \cup {[kind |-> k, data |-> ""] : k \in {"none", "oversize", "other"}}

NoUpload ==
  [id |-> <<>>, index |-> <<>>, total |-> 0,
   part |-> [kind |-> "none", data |-> ""]]

\* `chunk-${req.params.chunkIndex}`
chunkName(index) == <<"c","h","u","n","k","-">> \o index

\* a directory: the data of each file in it, by name
EmptyDir == [n \in {} |-> ""]
WriteFile(dir, name, data) ==
  [n \in DOMAIN dir \cup {name} |-> IF n = name THEN data ELSE dir[n]]
RemoveFile(dir, name) == [n \in DOMAIN dir \ {name} |-> dir[n]]

NoOutput == [exists |-> FALSE, data |-> <<>>]

\* parseInt of a text of decimal digits
RECURSIVE parseInt(_)
parseInt(s) ==
  IF s = <<>> THEN 0
  ELSE 10 * parseInt(SubSeq(s, 1, Len(s) - 1))
         + (CHOOSE d \in 0..9 : DigitSeq[d + 1] = s[Len(s)])

\* MissingChunks that starts the loop at chunk 1
MissingChunksFromOne(dir, total) ==
  {i \in 1..(total - 1) : chunkName(DecStr(i)) \notin DOMAIN dir}

\* the loop that checks the chunks: the indexes below totalChunks whose file
\* is not in the directory
MissingChunks(dir, total) ==
  {i \in 0..(total - 1) : chunkName(DecStr(i)) \notin DOMAIN dir}

\* fs.readFile throws on a file that is not there: how many chunks, from
\* chunk-0 on, the merge loop may get through
Readable(dir, n) ==
  {k \in 0..n : \A i \in 0..(k - 1) : chunkName(DecStr(i)) \in DOMAIN dir}

\* ReadChunks that walks the chunks from the last to the first
RECURSIVE ReadChunksDown(_, _, _)
ReadChunksDown(dir, i, n) ==
  IF i >= n THEN <<>>
  ELSE ReadChunksDown(dir, i + 1, n) \o <<dir[chunkName(DecStr(i))]>>

\* the loop that merges: the data of chunk-i, chunk-(i+1), .. chunk-(n-1),
\* written one after the other
RECURSIVE ReadChunks(_, _, _)
ReadChunks(dir, i, n) ==
  IF i >= n THEN <<>>
  ELSE <<dir[chunkName(DecStr(i))]>> \o ReadChunks(dir, i + 1, n)

\* a new request: every local of the previous one is gone
Fresh(k, r) ==
  /\ kind' = k
  /\ req' = r
  /\ files' = NoFiles
  /\ tempDir' = 0
  /\ dirs' = {}
  /\ made' = 0
  /\ mwErr' = NoError
  /\ env' = env
  /\ requestId' = <<>>
  /\ iconUpload' = 0
  /\ zipUpload' = 0
  /\ calls' = <<>>
  /\ out' = NoResp
  /\ cleaned' = FALSE
  /\ resp' = NoResp
  /\ run' = NoRun
  /\ release' = NoRelease
  /\ github' = github
  /\ UNCHANGED <<concVars, diskVars, tmpVars, verVars>>

\* a client posts a build request
BuildArrive ==
  /\ pc = "idle"
  /\ \E r \in BuildRequests : Fresh("build", r)
  /\ pc' = "multer"
  /\ buildId' = <<>>
  /\ upload' = NoUpload
  /\ UNCHANGED served

\* a client posts a build request, the package name being any short text
PackageArrive ==
  /\ pc = "idle"
  /\ \E r \in PackageRequests : Fresh("build", r)
  /\ pc' = "multer"
  /\ buildId' = <<>>
  /\ upload' = NoUpload
  /\ UNCHANGED served

\* one client posts well-formed build requests, all within one
\* RATE_LIMIT_WINDOW; served counts them.  No middleware of the route reads
\* the count: the chain is trackUploadProgress, upload.fields, handler.
RateRequest ==
  [appName |-> <<" ","M","y","-","-","A","p","p">>,
   packageName |-> <<"c","o","m",".","A","_","1">>,
   parts |-> <<Part("icon", [mimetype |-> "image/png", ext |-> ".png"], 1),
               Part("projectZip",
                    [mimetype |-> "application/zip", ext |-> ".zip"], 1)>>,
   moreFiles |-> FALSE]

ClientPost ==
  /\ pc = "idle"
  /\ served <= RATE_LIMIT_MAX
  /\ Fresh("build", RateRequest)
  /\ pc' = "multer"
  /\ buildId' = <<>>
  /\ upload' = NoUpload
  /\ served' = served + 1

\* trackUploadProgress and upload.fields: the files are filtered and stored,
\* then the handler runs, or the error middleware when multer calls next(err)
MulterParse ==
  /\ kind = "build" /\ pc = "multer"
  /\ \E mkdirOk \in BOOLEAN :
       LET st == MulterResult(req, mkdirOk) IN
       /\ files' = st.files
       /\ tempDir' = st.tempDir
       /\ dirs' = st.dirs
       /\ made' = st.made
       /\ mwErr' = st.err
       /\ pc' = IF st.err = NoError THEN "handler" ELSE "error"
  /\ UNCHANGED <<statusVars, concVars, sideVars, tmpVars, verVars>>
  /\ UNCHANGED <<out, cleaned, kind, req, env, requestId, iconUpload, zipUpload, calls, resp>>

\* app.use((err, req, res, next) => ...)
ErrorMiddleware ==
  /\ kind \in {"build", "chunk"} /\ pc = "error"
  /\ resp' = ErrorReply(mwErr)
  /\ pc' = "done"
  /\ UNCHANGED <<statusVars, concVars, sideVars, tmpVars, verVars>>
  /\ UNCHANGED <<out, cleaned, kind, req, files, tempDir, dirs, made, mwErr, env, requestId,
                 iconUpload, zipUpload, calls>>

\* BuildValidate that answers a failed check without cleaning up first
BuildValidateNoCleanup ==
  /\ kind = "build" /\ pc = "handler"
  /\ \E t \in Times, b \in RandomBytes :
       /\ requestId' = generateBuildId(t, b)
       /\ IF BuildCheck(env, req, files).status # 0
          THEN /\ out' = BuildCheck(env, req, files)
               /\ pc' = "respond"
          ELSE /\ UNCHANGED out
               /\ pc' = "icon"
  /\ UNCHANGED <<statusVars, concVars, sideVars, tmpVars, verVars>>
  /\ UNCHANGED <<cleaned, kind, req, files, tempDir, dirs, made, mwErr, env,
                 iconUpload, zipUpload, calls, resp>>

\* the handler up to the first upload: requestId, the environment, the checks.
\* A failed check goes on to `await cleanupTemp(tempDir)` and then answers.
BuildValidate ==
  /\ kind = "build" /\ pc = "handler"
  /\ \E t \in Times, b \in RandomBytes :
       /\ requestId' = generateBuildId(t, b)
       /\ IF BuildCheck(env, req, files).status # 0
          THEN /\ out' = BuildCheck(env, req, files)
               /\ pc' = "cleanup"
          ELSE /\ UNCHANGED out
               /\ pc' = "icon"
  /\ UNCHANGED <<statusVars, concVars, sideVars, tmpVars, verVars>>
  /\ UNCHANGED <<cleaned, kind, req, files, tempDir, dirs, made, mwErr, env,
                 iconUpload, zipUpload, calls, resp>>

\* the icon is read from disk and uploaded; readOk: fs.readFile succeeded;
\* url: the secure_url returned, 0 when the upload failed
IconUpload ==
  /\ kind = "build" /\ pc = "icon"
  /\ \E readOk \in BOOLEAN, url \in Urls \cup {0} :
       /\ calls' = IF readOk
                   THEN Append(calls, UploadCall("icon",
                                 IconPublicId(req, requestId), files.icon,
                                 "buffer", url))
                   ELSE calls
       /\ IF readOk /\ url # 0
          THEN /\ iconUpload' = url
               /\ pc' = "zip"
               /\ UNCHANGED out
          ELSE /\ out' = Reply(500, makeErrorResponse("CLOUDINARY_ICON_FAIL",
                                      "Failed to upload icon"))
               /\ pc' = "cleanup"
               /\ UNCHANGED iconUpload
  /\ UNCHANGED <<statusVars, concVars, sideVars, tmpVars, verVars>>
  /\ UNCHANGED <<cleaned, kind, req, files, tempDir, dirs, made, mwErr, env,
                 requestId, zipUpload, resp>>

\* the ZIP is uploaded, streamed or from a buffer
ZipUpload ==
  /\ kind = "build" /\ pc = "zip"
  /\ \E readOk \in BOOLEAN, url \in Urls \cup {0} :
       LET method == ZipMethod(files.projectZip)
           called == method = "stream" \/ readOk
       IN
       /\ calls' = IF called
                   THEN Append(calls, UploadCall("zip",
                                 ZipPublicId(req, requestId), files.projectZip,
                                 method, IF readOk THEN url ELSE 0))
                   ELSE calls
       /\ IF readOk /\ url # 0
          THEN /\ zipUpload' = url
               /\ pc' = "dispatch"
               /\ UNCHANGED out
          ELSE /\ out' = Reply(500, makeErrorResponse("CLOUDINARY_ZIP_FAIL",
                                      "Failed to upload project ZIP"))
               /\ pc' = "cleanup"
               /\ UNCHANGED zipUpload
  /\ UNCHANGED <<statusVars, concVars, sideVars, tmpVars, verVars>>
  /\ UNCHANGED <<cleaned, kind, req, files, tempDir, dirs, made, mwErr, env,
                 requestId, iconUpload, resp>>

\* Dispatch that posts again when the answer is no 2xx
DispatchRetrying ==
  /\ kind = "build" /\ pc = "dispatch"
  /\ \E status \in DispatchStatuses \cup {0} :
       /\ calls' = Append(calls,
            DispatchCall(githubPayload(req, requestId, iconUpload, zipUpload),
                         status))
       /\ IF DispatchAccepted(status) \/ Len(calls) >= 3
          THEN /\ out' = DispatchReply(req, requestId, iconUpload, zipUpload,
                                       status)
               /\ pc' = "cleanup"
          ELSE UNCHANGED <<out, pc>>
  /\ UNCHANGED <<statusVars, concVars, sideVars, tmpVars, verVars>>
  /\ UNCHANGED <<cleaned, kind, req, files, tempDir, dirs, made, mwErr, env,
                 requestId, iconUpload, zipUpload, resp>>

\* the repository-dispatch is posted and answered
Dispatch ==
  /\ kind = "build" /\ pc = "dispatch"
  /\ \E status \in DispatchStatuses \cup {0} :
       /\ calls' = Append(calls,
            DispatchCall(githubPayload(req, requestId, iconUpload, zipUpload),
                         status))
       /\ out' = DispatchReply(req, requestId, iconUpload, zipUpload, status)
       /\ pc' = "cleanup"
  /\ UNCHANGED <<statusVars, concVars, sideVars, tmpVars, verVars>>
  /\ UNCHANGED <<cleaned, kind, req, files, tempDir, dirs, made, mwErr, env,
                 requestId, iconUpload, zipUpload, resp>>

\* `await cleanupTemp(tempDir)` on the way out of the handler; rmOk: fs.rm
\* succeeded.  Were cleanupTemp to throw, the handler's catch would answer.
Cleanup ==
  /\ kind = "build" /\ pc = "cleanup"
  /\ \E rmOk \in BOOLEAN :
       /\ dirs' = cleanupTemp(dirs, tempDir, rmOk)
       /\ out' = IF cleanupTempThrows(dirs, tempDir, rmOk)
                 THEN Reply(500, makeErrorResponse("SERVER_ERROR",
                                   "Unexpected server error"))
                 ELSE out
  /\ cleaned' = TRUE
  /\ pc' = "respond"
  /\ UNCHANGED <<statusVars, concVars, sideVars, tmpVars, verVars>>
  /\ UNCHANGED <<kind, req, files, tempDir, made, mwErr, env, requestId,
                 iconUpload, zipUpload, calls, resp>>

\* return res.status(...).json(...)
Respond ==
  /\ kind = "build" /\ pc = "respond"
  /\ resp' = out
  /\ pc' = "done"
  /\ UNCHANGED <<statusVars, concVars, sideVars, tmpVars, verVars>>
  /\ UNCHANGED <<out, cleaned, kind, req, files, tempDir, dirs, made, mwErr,
                 env, requestId, iconUpload, zipUpload, calls>>

\* a client polls the status of a build
StatusArrive ==
  /\ pc = "idle"
  /\ Fresh("status", NoRequest)
  /\ \E id \in PolledIds(github) : buildId' = id
  /\ pc' = "start"
  /\ upload' = NoUpload
  /\ UNCHANGED served

\* the handler up to the runs query: the environment is read and checked
StatusStart ==
  /\ kind = "status" /\ pc = "start"
  /\ IF ~EnvOk(env)
     THEN /\ resp' = Reply(500, makeErrorResponse("MISSING_ENV",
                                  "Server misconfigured"))
          /\ pc' = "done"
     ELSE /\ pc' = "runs"
          /\ UNCHANGED resp
  /\ UNCHANGED <<concVars, sideVars, tmpVars, verVars>>
  /\ UNCHANGED <<github, out, cleaned, kind, req, files, tempDir, dirs, made, mwErr, env, requestId,
                 iconUpload, zipUpload, calls, buildId, run, release>>

\* the workflow runs are queried: the query fails (a status outside 2xx, a
\* timeout), or lists the runs
RunsQuery ==
  /\ kind = "status" /\ pc = "runs"
  /\ \/ /\ calls' = Append(calls, RunsCall(FALSE))
        /\ resp' = Reply(500, makeErrorResponse("CHECK_FAILED",
                                "Failed to check build status"))
        /\ pc' = "done"
        /\ UNCHANGED run
     \/ \E runs \in ListedRuns(github) :
          /\ calls' = Append(calls, RunsCall(TRUE))
          /\ run' = FindRun(runs, buildId)
          /\ IF NeedsRelease(FindRun(runs, buildId))
             THEN /\ pc' = "release"
                  /\ UNCHANGED resp
             ELSE /\ resp' = StatusReply(buildId, FindRun(runs, buildId), NoRelease)
                  /\ pc' = "done"
  /\ UNCHANGED <<concVars, sideVars, tmpVars, verVars>>
  /\ UNCHANGED <<github, out, cleaned, kind, req, files, tempDir, dirs, made, mwErr, env, requestId,
                 iconUpload, zipUpload, buildId, release>>

\* the release tagged build-<buildId> is queried
ReleaseQuery ==
  /\ kind = "status" /\ pc = "release"
  /\ \E rel \in ReleaseFound(github) :
       /\ calls' = Append(calls, ReleaseCall(buildId, rel.status))
       /\ release' = rel
       /\ resp' = StatusReply(buildId, run, rel)
       /\ pc' = "done"
  /\ UNCHANGED <<concVars, sideVars, tmpVars, verVars>>
  /\ UNCHANGED <<github, out, cleaned, kind, req, files, tempDir, dirs, made, mwErr, env, requestId,
                 iconUpload, zipUpload, buildId, run>>

\* ------------------- POST /build-flutter, GET /check-status (part_000)
\* sanitizeFilename of part_000: no String(name || ''), no collapsing
LegacySanitize(name) == ToLowerCase(ReplaceNonAlnum(Trim(name)))

\* `${packageName}` in a template string
TemplateString(v) ==
  IF v = Undefined THEN <<"u","n","d","e","f","i","n","e","d">> ELSE v

\* { success: false, error: error.message }
LegacyErrorBody(message) == [success |-> FALSE, error |-> message]

\* part_000 installs no error middleware: Express's own handler answers
\* next(err) with status 500 and an HTML page
ExpressDefaultError(message) == Reply(500, [html |-> message])

\* multer({ dest: '/tmp/' }) with upload.fields: no filter, no limits, each
\* field at most once; the files from the i-th part on
RECURSIVE LegacyMulterFiles(_, _, _)
LegacyMulterFiles(parts, i, st) ==
  IF i > Len(parts) THEN st
  ELSE
    LET p == parts[i] IN
    IF p.field \notin {"icon", "projectZip"} \/ st.files[p.field] # NoFile
    THEN [st EXCEPT !.err = MulterError("LIMIT_UNEXPECTED_FILE")]
    ELSE LegacyMulterFiles(parts, i + 1,
                           [st EXCEPT !.files[p.field] = Stored(p, 0)])

LegacyMulterResult(r) ==
  LET st == LegacyMulterFiles(r.parts, 1, [files |-> NoFiles, err |-> NoError])
  IN IF st.err = NoError /\ r.moreFiles
     THEN [st EXCEPT !.err = MulterError("LIMIT_UNEXPECTED_FILE")]
     ELSE st

LegacyMulter ==
  /\ kind = "build" /\ pc = "multer"
  /\ LET st == LegacyMulterResult(req) IN
     /\ files' = st.files
     /\ mwErr' = st.err
     /\ IF st.err = NoError
        THEN pc' = "handler" /\ UNCHANGED resp
        ELSE pc' = "done" /\ resp' = ExpressDefaultError(st.err.code)
  /\ UNCHANGED <<statusVars, concVars, sideVars, tmpVars, verVars>>
  /\ UNCHANGED <<out, cleaned, kind, req, tempDir, dirs, made, env, requestId, iconUpload,
                 zipUpload, calls>>

\* what the handler throws before the first upload ("": nothing)
LegacyCheck(r, fs) ==
  IF r.appName = Undefined
  THEN "Cannot read properties of undefined (reading 'trim')"
  ELSE IF fs.icon = NoFile \/ fs.projectZip = NoFile
  THEN "Missing files"
  ELSE ""

\* the handler up to the first upload: safeAppName, the check of the files
LegacyValidate ==
  /\ kind = "build" /\ pc = "handler"
  /\ IF LegacyCheck(req, files) # ""
     THEN /\ resp' = Reply(500, LegacyErrorBody(LegacyCheck(req, files)))
          /\ pc' = "done"
     ELSE /\ pc' = "icon"
          /\ UNCHANGED resp
  /\ UNCHANGED <<statusVars, concVars, sideVars, tmpVars, verVars>>
  /\ UNCHANGED <<out, cleaned, kind, req, files, tempDir, dirs, made, mwErr, env, requestId,
                 iconUpload, zipUpload, calls>>

\* cloudinary.uploader.upload(iconFile.path, ...)
LegacyIconUpload ==
  /\ kind = "build" /\ pc = "icon"
  /\ \E url \in Urls \cup {0} :
       /\ calls' = Append(calls, UploadCall("icon", <<>>, files.icon, "path", url))
       /\ IF url # 0
          THEN /\ iconUpload' = url
               /\ pc' = "zip"
               /\ UNCHANGED resp
          ELSE /\ resp' = Reply(500, LegacyErrorBody("upload failed"))
               /\ pc' = "done"
               /\ UNCHANGED iconUpload
  /\ UNCHANGED <<statusVars, concVars, sideVars, tmpVars, verVars>>
  /\ UNCHANGED <<out, cleaned, kind, req, files, tempDir, dirs, made, mwErr, env, requestId,
                 zipUpload>>

LegacyZipPublicId(r, t) ==
  TemplateString(r.packageName) \o <<"_","s","o","u","r","c","e","_">> \o DecStr(t)

\* cloudinary.uploader.upload(zipFile.path, ...)
LegacyZipUpload ==
  /\ kind = "build" /\ pc = "zip"
  /\ \E url \in Urls \cup {0}, t \in Times :
       /\ calls' = Append(calls, UploadCall("zip", LegacyZipPublicId(req, t),
                                            files.projectZip, "path", url))
       /\ IF url # 0
          THEN /\ zipUpload' = url
               /\ pc' = "dispatch"
               /\ UNCHANGED resp
          ELSE /\ resp' = Reply(500, LegacyErrorBody("upload failed"))
               /\ pc' = "done"
               /\ UNCHANGED zipUpload
  /\ UNCHANGED <<statusVars, concVars, sideVars, tmpVars, verVars>>
  /\ UNCHANGED <<out, cleaned, kind, req, files, tempDir, dirs, made, mwErr, env, requestId,
                 iconUpload>>

LegacyPayload(r, id, iconUrl, zipUrl) ==
  [event_type |-> "build-flutter",
   client_payload |->
     [app_name |-> LegacySanitize(r.appName),
      display_name |-> r.appName,
      package_name |-> r.packageName,
      icon_url |-> iconUrl,
      zip_url |-> zipUrl,
      request_id |-> id]]

\* requestId = Date.now().toString(); axios.post, which throws unless the
\* answer is 2xx; the answer to the client
LegacyDispatch ==
  /\ kind = "build" /\ pc = "dispatch"
  /\ \E status \in DispatchStatuses \cup {0}, t \in Times :
       /\ requestId' = DecStr(t)
       /\ calls' = Append(calls,
            DispatchCall(LegacyPayload(req, DecStr(t), iconUpload, zipUpload),
                         status))
       /\ resp' = IF status >= 200 /\ status < 300
                  THEN Reply(200, [success |-> TRUE,
                                   message |-> "Build initiated",
                                   build_id |-> DecStr(t),
                                   safe_app_name |-> LegacySanitize(req.appName)])
                  ELSE Reply(500, LegacyErrorBody("Request failed"))
       /\ pc' = "done"
  /\ UNCHANGED <<statusVars, concVars, sideVars, tmpVars, verVars>>
  /\ UNCHANGED <<out, cleaned, kind, req, files, tempDir, dirs, made, mwErr, env, iconUpload,
                 zipUpload>>

\* a client polls the status of a build, giving the safe name of the app
LegacyStatusArrive ==
  /\ pc = "idle"
  /\ \E id \in BuildIds, name \in {Undefined, <<"m","y","_","a","p","p">>} :
       /\ Fresh("status", [NoRequest EXCEPT !.appName = name])
       /\ buildId' = id
  /\ pc' = "start"
  /\ upload' = NoUpload
  /\ UNCHANGED served

LegacyDownloadUrl(id, name) ==
  <<"b","u","i","l","d","-">> \o id \o <<"/">> \o TemplateString(name)
    \o <<".","a","p","k">>

\* the release build-<buildId> is queried: an answer of 2xx means completed,
\* everything else (a 404, any other status, no answer) means not completed
LegacyStatus ==
  /\ kind = "status" /\ pc = "start"
  /\ \E status \in ReleaseStatuses \cup {0} :
       /\ calls' = Append(calls, ReleaseCall(buildId, status))
       /\ resp' = IF status >= 200 /\ status < 300
                  THEN Reply(200, [completed |-> TRUE,
                                   download_url |->
                                     LegacyDownloadUrl(buildId, req.appName)])
                  ELSE Reply(200, [completed |-> FALSE])
       /\ pc' = "done"
  /\ UNCHANGED <<concVars, sideVars, tmpVars, verVars>>
  /\ UNCHANGED <<github, out, cleaned, kind, req, files, tempDir, dirs, made, mwErr, env, requestId,
                 iconUpload, zipUpload, buildId, run, release>>

\* --------------------------------------------- GET /check-status (part_005)
\* what part_005 answers once both queries are done.  latest: workflow_runs[0]
\* (NoRun: the list is empty); rel: the release build-<request_id>, whose
\* query throws on every status outside 2xx.
Part005Reply(latest, rel) ==
  IF rel.status >= 200 /\ rel.status < 300 /\ Len(rel.assets) > 0
  THEN Reply(200, [status |-> "completed", conclusion |-> "success",
                   download_url |-> rel.assets[1].browser_download_url])
  ELSE IF latest # NoRun /\ latest.status = "completed"
            /\ latest.conclusion = "failure"
  THEN Reply(200, [status |-> "completed", conclusion |-> "failure"])
  ELSE Reply(200, [status |-> "in_progress", conclusion |-> "none"])

\* workflow_runs[0]
LatestRun(runs) == IF runs # <<>> THEN runs[1] ELSE NoRun

\* the runs are queried; a failure is answered { status: 'error' }
Part005Runs ==
  /\ kind = "status" /\ pc = "start"
  /\ \/ /\ calls' = Append(calls, RunsCall(FALSE))
        /\ resp' = Reply(200, [status |-> "error", conclusion |-> "none"])
        /\ pc' = "done"
        /\ UNCHANGED run
     \/ \E runs \in ListedRuns(github) :
          /\ calls' = Append(calls, RunsCall(TRUE))
          /\ run' = LatestRun(runs)
          /\ pc' = "release"
          /\ UNCHANGED resp
  /\ UNCHANGED <<concVars, sideVars, tmpVars, verVars>>
  /\ UNCHANGED <<github, out, cleaned, kind, req, files, tempDir, dirs, made,
                 mwErr, env, requestId, iconUpload, zipUpload, buildId,
                 release>>

\* the release build-<request_id> is queried and the answer is sent
Part005Release ==
  /\ kind = "status" /\ pc = "release"
  /\ \E rel \in ReleaseFound(github) :
       /\ calls' = Append(calls, ReleaseCall(buildId, rel.status))
       /\ release' = rel
       /\ resp' = Part005Reply(run, rel)
       /\ pc' = "done"
  /\ UNCHANGED <<concVars, sideVars, tmpVars, verVars>>
  /\ UNCHANGED <<github, out, cleaned, kind, req, files, tempDir, dirs, made,
                 mwErr, env, requestId, iconUpload, zipUpload, buildId, run>>

\* ---------------------------------------- chunked upload: the two handlers
\* a client posts a chunk
ChunkArrive ==
  /\ pc = "idle"
  /\ Fresh("chunk", NoRequest)
  /\ \E u \in UploadIds, ix \in ChunkIndexes, p \in ChunkParts :
       upload' = [id |-> u, index |-> ix, total |-> 0, part |-> p]
  /\ pc' = "store"
  /\ buildId' = <<>>
  /\ UNCHANGED served

\* chunkUpload.single('chunk') and the handler.  A file under "chunk" is
\* written to chunk-<chunkIndex> in the directory of the upload, over a file
\* of that name; one that grows past the size limit is removed again and
\* the error middleware answers.  mkdirOk: fs.mkdir in the destination
\* callback succeeded; when it fails nobody answers the request.
ChunkUpload ==
  /\ kind = "chunk" /\ pc = "store"
  /\ LET u == upload.id
         name == chunkName(upload.index)
     IN
     \/ /\ upload.part.kind = "none"
        /\ resp' = Reply(200, [success |-> TRUE, upload_id |-> u,
                               chunk_index |-> parseInt(upload.index),
                               received |-> TRUE])
        /\ pc' = "done"
        /\ UNCHANGED <<chunks, mwErr>>
     \/ /\ upload.part.kind = "other"
        /\ mwErr' = MulterError("LIMIT_UNEXPECTED_FILE")
        /\ pc' = "error"
        /\ UNCHANGED <<chunks, resp>>
     \/ /\ upload.part.kind \in {"file", "oversize"}
        /\ \E mkdirOk \in BOOLEAN :
             IF ~mkdirOk
             THEN /\ pc' = "done"
                  /\ UNCHANGED <<chunks, mwErr, resp>>
             ELSE IF upload.part.kind = "oversize"
             THEN /\ chunks' = [chunks EXCEPT ![u] = RemoveFile(@, name)]
                  /\ mwErr' = MulterError("LIMIT_FILE_SIZE")
                  /\ pc' = "error"
                  /\ UNCHANGED resp
             ELSE /\ chunks' = [chunks EXCEPT
                                  ![u] = WriteFile(@, name, upload.part.data)]
                  /\ resp' = Reply(200, [success |-> TRUE, upload_id |-> u,
                                         chunk_index |-> parseInt(upload.index),
                                         received |-> TRUE])
                  /\ pc' = "done"
                  /\ UNCHANGED mwErr
  /\ UNCHANGED <<statusVars, concVars, served, merged, upload, tmpVars, verVars>>
  /\ UNCHANGED <<out, cleaned, kind, req, files, tempDir, dirs, made, env,
                 requestId, iconUpload, zipUpload, calls>>

\* a client asks for the chunks of an upload to be merged
CompleteArrive ==
  /\ pc = "idle"
  /\ Fresh("complete", NoRequest)
  /\ \E u \in UploadIds, t \in TotalChunks :
       upload' = [NoUpload EXCEPT !.id = u, !.total = t]
  /\ pc' = "merge"
  /\ buildId' = <<>>
  /\ UNCHANGED served

\* the handler of POST /upload/complete/:uploadId.  k: the number of chunks
\* read and written before an I/O error, totalChunks when there was none;
\* rmOk: fs.rm of the chunk directory succeeded.
Complete ==
  /\ kind = "complete" /\ pc = "merge"
  /\ LET u == upload.id
         dir == chunks[u]
         n == IF upload.total < 0 THEN 0 ELSE upload.total
     IN
     IF MissingChunks(dir, upload.total) # {}
     THEN /\ resp' = Reply(500, makeErrorResponse("MERGE_ERROR", "Missing chunk"))
          /\ UNCHANGED <<chunks, merged>>
     ELSE \E k \in Readable(dir, n), rmOk \in BOOLEAN :
            /\ merged' = [merged EXCEPT
                            ![u] = [exists |-> TRUE,
                                    data |-> ReadChunks(dir, 0, k)]]
            /\ IF k < n
               THEN /\ resp' = Reply(500, makeErrorResponse("MERGE_ERROR",
                                            "read or write failed"))
                    /\ UNCHANGED chunks
               ELSE IF ~rmOk
               THEN /\ resp' = Reply(500, makeErrorResponse("MERGE_ERROR",
                                            "rm failed"))
                    /\ UNCHANGED chunks
               ELSE /\ chunks' = [chunks EXCEPT ![u] = EmptyDir]
                    /\ resp' = Reply(200, [success |-> TRUE, upload_id |-> u,
                                           file_size |-> n])
  /\ pc' = "done"
  /\ UNCHANGED <<statusVars, concVars, served, upload, tmpVars, verVars>>
  /\ UNCHANGED <<out, cleaned, kind, req, files, tempDir, dirs, made, mwErr,
                 env, requestId, iconUpload, zipUpload, calls>>

\* ------------------------------------------------ concurrent build requests
Clients == 1..NumClients

\* a millisecond passes
Tick ==
  /\ now < MaxClock
  /\ now' = now + 1
  /\ UNCHANGED <<variant, cpc, cid>>
  /\ UNCHANGED <<buildVars, statusVars, sideVars, tmpVars, verVars>>

\* a build request reaches its handler.  server.js draws requestId first
\* thing; part_000 first awaits the two uploads.
ConcPost(c) ==
  /\ cpc[c] = "idle"
  /\ IF variant = "server.js"
     THEN \E b \in RandomBytes :
            /\ cid' = [cid EXCEPT ![c] = generateBuildId(now, b)]
            /\ cpc' = [cpc EXCEPT ![c] = "running"]
     ELSE /\ cpc' = [cpc EXCEPT ![c] = "uploading"]
          /\ UNCHANGED cid
  /\ UNCHANGED <<variant, now>>
  /\ UNCHANGED <<buildVars, statusVars, sideVars, tmpVars, verVars>>

\* part_000: the uploads are done; requestId = Date.now().toString()
ConcLegacyId(c) ==
  /\ cpc[c] = "uploading"
  /\ cid' = [cid EXCEPT ![c] = DecStr(now)]
  /\ cpc' = [cpc EXCEPT ![c] = "running"]
  /\ UNCHANGED <<variant, now>>
  /\ UNCHANGED <<buildVars, statusVars, sideVars, tmpVars, verVars>>

\* the dispatch is answered and the client gets build_id
ConcRespond(c) ==
  /\ cpc[c] = "running"
  /\ cpc' = [cpc EXCEPT ![c] = "done"]
  /\ UNCHANGED <<variant, now, cid>>
  /\ UNCHANGED <<buildVars, statusVars, sideVars, tmpVars, verVars>>

\* ------------------------------------------ detectFlutterVersion (part_010)
\* the longest prefix of s made of characters of the set cs
RECURSIVE TakeWhile(_, _)
TakeWhile(s, cs) ==
  IF s # <<>> /\ Head(s) \in cs THEN <<Head(s)>> \o TakeWhile(Tail(s), cs)
  ELSE <<>>

DigitChars == Range(DigitSeq)

\* 10^n
RECURSIVE Pow10(_)
Pow10(n) == IF n = 0 THEN 1 ELSE 10 * Pow10(n - 1)

\* parseFloat of a text of digits and dots: the digits up to the first dot
\* and the digits after it up to the next; NaN when there is no digit.  The
\* number is kept as num / den.  The texts are short, so two of them that
\* differ as decimals differ as doubles and compare the same way.
parseFloat(s) ==
  LET int == TakeWhile(s, DigitChars)
      rest == SubSeq(s, Len(int) + 1, Len(s))
      frac == IF rest # <<>> /\ Head(rest) = "."
              THEN TakeWhile(Tail(rest), DigitChars)
              ELSE <<>>
  IN
  [nan |-> int = <<>> /\ frac = <<>>,
   num |-> parseInt(int \o frac),
   den |-> Pow10(Len(frac))]

\* dartVersion >= a / b; a comparison with NaN is false
FloatAtLeast(x, a, b) == ~x.nan /\ x.num * b >= a * x.den

\* /sdk:\s*['"]?>=?([\d.]+)/ tried at position i of s: the text captured by
\* the group, <<>> when the pattern does not match there
RECURSIVE SkipSpaces(_, _)
SkipSpaces(s, i) ==
  IF i <= Len(s) /\ IsSpace(s[i]) THEN SkipSpaces(s, i + 1) ELSE i

SdkMatchAt(s, i) ==
  IF i + 3 > Len(s) \/ SubSeq(s, i, i + 3) # <<"s","d","k",":">> THEN <<>>
  ELSE
    LET j == SkipSpaces(s, i + 4)
        k == IF j <= Len(s) /\ s[j] \in {"'", "\""} THEN j + 1 ELSE j
    IN
    IF k > Len(s) \/ s[k] # ">" THEN <<>>
    ELSE
      LET m == IF k + 1 <= Len(s) /\ s[k + 1] = "=" THEN k + 2 ELSE k + 1 IN
      TakeWhile(SubSeq(s, m, Len(s)), DigitChars \cup {"."})

\* pubspecContent.match(...): the group of the leftmost match, <<>> when
\* there is none
RECURSIVE SdkMatchFrom(_, _)
SdkMatchFrom(s, i) ==
  IF i > Len(s) THEN <<>>
  ELSE IF SdkMatchAt(s, i) # <<>> THEN SdkMatchAt(s, i)
  ELSE SdkMatchFrom(s, i + 1)

SdkMatch(s) == SdkMatchFrom(s, 1)

PubspecName == <<"p","u","b","s","p","e","c",".","y","a","m","l">>
MacosxName == <<"_","_","M","A","C","O","S","X">>

\* the loop over zip.getEntries(): the data of the first entry whose name
\* ends with pubspec.yaml and does not contain __MACOSX; found is false when
\* there is none
RECURSIVE FindPubspec(_, _)
FindPubspec(entries, i) ==
  IF i > Len(entries) THEN [found |-> FALSE, data |-> <<>>]
  ELSE IF /\ EndsWith(entries[i].entryName, PubspecName)
          /\ ~Includes(entries[i].entryName, MacosxName)
       THEN [found |-> TRUE, data |-> entries[i].data]
  ELSE FindPubspec(entries, i + 1)

\* the comparisons of dartVersion, with the version each one returns
VersionOfFloat(x) ==
  IF FloatAtLeast(x, 35, 10) THEN "3.24.0"
  ELSE IF FloatAtLeast(x, 33, 10) THEN "3.22.0"
  ELSE IF FloatAtLeast(x, 3, 1) THEN "3.16.0"
  ELSE IF FloatAtLeast(x, 212, 100) THEN "3.7.0"
  ELSE "3.24.0"

\* new AdmZip(zipBuffer) throws on a buffer that is no archive; the catch
\* block and every path that returns nothing fall through to '3.24.0'
detectFlutterVersion(buf) ==
  IF ~buf.readable THEN "3.24.0"
  ELSE
    LET pubspec == FindPubspec(buf.entries, 1) IN
    IF ~pubspec.found \/ pubspec.data = <<>> THEN "3.24.0"
    ELSE
      LET sdkMatch == SdkMatch(pubspec.data) IN
      IF sdkMatch = <<>> THEN "3.24.0"
      ELSE VersionOfFloat(parseFloat(sdkMatch))

\* the archives tried.  The text after the comparison sign is any short text
\* of digits and dots; it stands in a pubspec after "sdk:", a blank or none,
\* a quote or none, and one of the signs a constraint is written with.
VerAlphabet == {"0", "1", "2", "3", "5", "."}
VerTexts == UNION {[1..n -> VerAlphabet] : n \in 1..MaxVerLen}
SdkLines ==
  { <<"s","d","k",":">> \o sp \o q \o op \o v :
      sp \in {<<>>, <<" ">>}, q \in {<<>>, <<"'">>},
      op \in {<<">","=">>, <<">">>, <<"^">>}, v \in VerTexts }

\* a pubspec that names the Flutter SDK before the Dart constraint, one
\* with no constraint, an empty one, and two with a constraint
SamplePubspecs ==
  { <<"s","d","k",":"," ","f","l","u","t","t","e","r","\n">>
      \o <<"s","d","k",":"," ","'",">","=","3",".","3",".","0">>,
    <<"n","a","m","e",":"," ","a","p","p">>,
    <<>>,
    <<"s","d","k",":"," ",">","=","2",".","1","2",".","0">>,
    <<"s","d","k",":"," ","'",">","=","3",".","0",".","0">> }

EntryNames ==
  { PubspecName,
    <<"a","p","p","/">> \o PubspecName,
    MacosxName \o <<"/">> \o PubspecName,
    <<"l","i","b","/","m","a","i","n",".","d","a","r","t">> }

Entries == [entryName : EntryNames, data : SamplePubspecs]

NoBuffer == [readable |-> FALSE, entries |-> <<>>]

Archives ==
  {NoBuffer}
    \cup {[readable |-> TRUE, entries |-> es] :
            es \in UNION {[1..n -> Entries] : n \in 0..MaxEntries}}
    \cup {[readable |-> TRUE,
           entries |-> <<[entryName |-> PubspecName, data |-> line]>>] :
            line \in SdkLines}

\* a build request of part_010 reaches the call with its archive
VerArrive ==
  /\ vpc = "idle"
  /\ zipBuffer' \in Archives
  /\ vpc' = "detect"
  /\ UNCHANGED flutterVersion
  /\ UNCHANGED <<buildVars, statusVars, concVars, sideVars, tmpVars>>

\* detectedFlutterVersion = detectFlutterVersion(buffer)
VerDetect ==
  /\ vpc = "detect"
  /\ flutterVersion' = detectFlutterVersion(zipBuffer)
  /\ vpc' = "done"
  /\ UNCHANGED zipBuffer
  /\ UNCHANGED <<buildVars, statusVars, concVars, sideVars, tmpVars>>

\* ------------------------------------------- temporary files of two requests
\* The bytes a request received are named by the client and the form field.
Bytes(c, f) == [owner |-> c, field |-> f]
NoBytes == [owner |-> 0, field |-> "none"]
NoSent == [icon |-> NoBytes, zip |-> NoBytes]
NoPaths == [icon |-> <<>>, zip |-> <<>>]

\* file.originalname of the archive and of the icon
ZipNames == {<<"p",".","z","i","p">>, <<"q",".","z","i","p">>}
IconNames == {<<"i",".","p","n","g">>, <<"j",".","p","n","g">>}

TmpVariants == {"part_010", "part_006", "server.js"}

\* part_010: destination uploadDir ('/tmp'), filename file.originalname
OriginalNamePath(name) == <<"/","t","m","p","/">> \o name

\* part_006: `/tmp/${Date.now()}.zip`
ClockPath(t) == <<"/","t","m","p","/">> \o DecStr(t) \o <<".","z","i","p">>

\* server.js: createTempDir makes a directory named crypto.randomUUID() for
\* each file, a name no other call returns: it is written here as the client
\* and the field the call was made for; the file in it is named
\* `${Date.now()}-${randomBytes}-${file.originalname}`
UuidPath(c, f, t, b, name) ==
  <<"/","t","m","p","/","u">> \o DecStr(c) \o <<f, "/">>
    \o generateBuildId(t, b) \o <<"-">> \o name

\* multer has stored the files of the request and the handler starts.
\* part_006 keeps them in memory.
TmpReceive(c) ==
  /\ tpc[c] = "idle"
  /\ \E zn \in ZipNames, icn \in IconNames, b \in RandomBytes :
       LET zp == IF variant = "part_010" THEN OriginalNamePath(zn)
                 ELSE UuidPath(c, "z", now, b, zn)
           ip == IF variant = "part_010" THEN OriginalNamePath(icn)
                 ELSE UuidPath(c, "i", now, b, icn)
       IN
       IF variant = "part_006"
       THEN UNCHANGED <<tmp, tpath>>
       ELSE /\ tmp' = WriteFile(WriteFile(tmp, ip, Bytes(c, "icon")),
                                zp, Bytes(c, "zip"))
            /\ tpath' = [tpath EXCEPT ![c] = [icon |-> ip, zip |-> zp]]
  /\ tpc' = [tpc EXCEPT ![c] = "stored"]
  /\ UNCHANGED sent
  /\ UNCHANGED <<buildVars, statusVars, concVars, sideVars, verVars>>

\* what is left on disk when the handler ends in its catch block: server.js
\* removes req.tempDir, the directory of the file stored last; the other two
\* variants remove nothing
AfterCatch(c) ==
  IF variant = "server.js" THEN RemoveFile(tmp, tpath[c].zip) ELSE tmp

\* the field a variant uploads first and second
FirstField == IF variant = "part_010" THEN "zip" ELSE "icon"
SecondField == IF variant = "part_010" THEN "icon" ELSE "zip"

\* the request reads the file at its path and posts it to the media host.
\* ok: the host accepted it.  A path with no file behind it makes the read
\* throw.
ReadAndSend(c, f, next) ==
  LET path == tpath[c][f] IN
  IF path \notin DOMAIN tmp
  THEN /\ tpc' = [tpc EXCEPT ![c] = "failed"]
       /\ tmp' = AfterCatch(c)
       /\ UNCHANGED sent
  ELSE \E ok \in BOOLEAN :
         /\ sent' = [sent EXCEPT ![c][f] = tmp[path]]
         /\ tpc' = [tpc EXCEPT ![c] = IF ok THEN next ELSE "failed"]
         /\ tmp' = IF ok THEN tmp ELSE AfterCatch(c)

\* the first upload: the archive in part_010, the icon in server.js, both
\* read from disk; the icon in part_006, taken from the buffer in memory
TmpFirstUpload(c) ==
  /\ tpc[c] = "stored"
  /\ IF variant = "part_006"
     THEN \E ok \in BOOLEAN :
            /\ sent' = [sent EXCEPT ![c].icon = Bytes(c, "icon")]
            /\ tpc' = [tpc EXCEPT ![c] = IF ok THEN "first" ELSE "failed"]
            /\ UNCHANGED tmp
     ELSE ReadAndSend(c, FirstField, "written")
  /\ UNCHANGED tpath
  /\ UNCHANGED <<buildVars, statusVars, concVars, sideVars, verVars>>

\* part_006: zipPath = `/tmp/${Date.now()}.zip`; fs.writeFileSync(zipPath,
\* buffer)
TmpWriteZip(c) ==
  /\ variant = "part_006"
  /\ tpc[c] = "first"
  /\ tpath' = [tpath EXCEPT ![c].zip = ClockPath(now)]
  /\ tmp' = WriteFile(tmp, ClockPath(now), Bytes(c, "zip"))
  /\ tpc' = [tpc EXCEPT ![c] = "written"]
  /\ UNCHANGED sent
  /\ UNCHANGED <<buildVars, statusVars, concVars, sideVars, verVars>>

\* the second upload, read from disk in every variant
TmpSecondUpload(c) ==
  /\ tpc[c] = "written"
  /\ ReadAndSend(c, SecondField, "second")
  /\ UNCHANGED tpath
  /\ UNCHANGED <<buildVars, statusVars, concVars, sideVars, verVars>>

\* the files the handler removes after the dispatch.  part_010: unlinkSync of
\* the archive, then of the icon, each throwing when the file is gone;
\* part_006: unlinkSync(zipPath) if it exists; server.js: cleanupTemp of
\* req.tempDir.
Unlinked(c) ==
  IF variant = "part_010"
  THEN IF tpath[c].zip \notin DOMAIN tmp THEN tmp
       ELSE RemoveFile(RemoveFile(tmp, tpath[c].zip), tpath[c].icon)
  ELSE RemoveFile(tmp, tpath[c].zip)

UnlinkThrows(c) ==
  /\ variant = "part_010"
  /\ \/ tpath[c].zip \notin DOMAIN tmp
     \/ tpath[c].icon \notin DOMAIN tmp

\* the dispatch and the removal of the temporary files.  ok: the dispatch
\* was accepted.
TmpFinish(c) ==
  /\ tpc[c] = "second"
  /\ \E ok \in BOOLEAN :
       IF ok
       THEN /\ tmp' = Unlinked(c)
            /\ tpc' = [tpc EXCEPT ![c] = IF UnlinkThrows(c) THEN "failed"
                                         ELSE "done"]
       ELSE /\ tmp' = AfterCatch(c)
            /\ tpc' = [tpc EXCEPT ![c] = "failed"]
  /\ UNCHANGED <<tpath, sent>>
  /\ UNCHANGED <<buildVars, statusVars, concVars, sideVars, verVars>>

\* the response is out and the handler has returned: its locals are gone and
\* the server waits for the next request
Close ==
  /\ pc = "done"
  /\ Fresh("idle", NoRequest)
  /\ buildId' = <<>>
  /\ pc' = "idle"
  /\ upload' = NoUpload
  /\ UNCHANGED served

InitServer ==
  /\ kind = "idle"
  /\ pc = "idle"
  /\ req = NoRequest
  /\ files = NoFiles
  /\ tempDir = 0
  /\ dirs = {}
  /\ made = 0
  /\ mwErr = NoError
  /\ env \in Envs
  /\ requestId = <<>>
  /\ iconUpload = 0
  /\ zipUpload = 0
  /\ calls = <<>>
  /\ out = NoResp
  /\ cleaned = FALSE
  /\ resp = NoResp
  /\ buildId = <<>>
  /\ run = NoRun
  /\ release = NoRelease
  /\ chunks = [u \in UploadIds |-> EmptyDir]
  /\ merged = [u \in UploadIds |-> NoOutput]
  /\ upload = NoUpload
  /\ served = 0
  /\ zipBuffer = NoBuffer
  /\ flutterVersion = ""
  /\ vpc = "idle"
  /\ tmp = EmptyDir
  /\ tpc = [c \in 1..NumClients |-> "idle"]
  /\ tpath = [c \in 1..NumClients |-> NoPaths]
  /\ sent = [c \in 1..NumClients |-> NoSent]

  /\ now = 0
  /\ cpc = [c \in Clients |-> "idle"]
  /\ cid = [c \in Clients |-> <<>>]

Init == InitServer /\ variant = "server.js" /\ github = Changing

\* server.js, one request at a time
Next ==
  \/ BuildArrive
  \/ MulterParse
  \/ ErrorMiddleware
  \/ BuildValidate
  \/ IconUpload
  \/ ZipUpload
  \/ Dispatch
  \/ Cleanup
  \/ Respond
  \/ StatusArrive
  \/ StatusStart
  \/ RunsQuery
  \/ ReleaseQuery
  \/ Close

Spec == Init /\ [][Next]_vars

\* part_000, one request at a time.  The variant reads the environment only
\* to build URLs and headers; what the upstream answers is left open.
InitLegacy ==
  InitServer /\ EnvOk(env) /\ variant = "part_000" /\ github = Changing

NextLegacy ==
  \/ BuildArrive
  \/ LegacyMulter
  \/ LegacyValidate
  \/ LegacyIconUpload
  \/ LegacyZipUpload
  \/ LegacyDispatch
  \/ LegacyStatusArrive
  \/ LegacyStatus
  \/ Close

SpecLegacy == InitLegacy /\ [][NextLegacy]_vars

\* server.js, build requests whose package name ranges over PkgStrings
NextPkg ==
  \/ PackageArrive
  \/ MulterParse
  \/ ErrorMiddleware
  \/ BuildValidate
  \/ IconUpload
  \/ ZipUpload
  \/ Dispatch
  \/ Cleanup
  \/ Respond
  \/ Close

SpecPkg == Init /\ [][NextPkg]_vars

\* server.js, a client polling the status of one build while the CI platform
\* no longer changes
InitPoll ==
  /\ InitServer /\ EnvOk(env) /\ variant = "server.js"
  /\ github \in FixedGithubs

NextPoll ==
  \/ StatusArrive
  \/ StatusStart
  \/ RunsQuery
  \/ ReleaseQuery
  \/ Close

SpecPoll == InitPoll /\ [][NextPoll]_vars

\* part_005, a client polling the status of one build while the CI platform
\* no longer changes
InitPoll005 ==
  /\ InitServer /\ EnvOk(env) /\ variant = "part_005"
  /\ github \in FixedGithubs

NextPoll005 ==
  \/ StatusArrive
  \/ Part005Runs
  \/ Part005Release
  \/ Close

SpecPoll005 == InitPoll005 /\ [][NextPoll005]_vars

\* server.js, the chunked upload endpoints; they do not read the environment
InitChunk == Init /\ EnvOk(env)

NextChunk ==
  \/ ChunkArrive
  \/ ChunkUpload
  \/ ErrorMiddleware
  \/ CompleteArrive
  \/ Complete
  \/ Close

SpecChunk == InitChunk /\ [][NextChunk]_vars

\* server.js, the build requests of one client inside one window
InitRate == Init /\ EnvOk(env)

NextRate ==
  \/ ClientPost
  \/ MulterParse
  \/ ErrorMiddleware
  \/ BuildValidate
  \/ IconUpload
  \/ ZipUpload
  \/ Dispatch
  \/ Cleanup
  \/ Respond
  \/ Close

SpecRate == InitRate /\ [][NextRate]_vars

\* build requests of several clients in flight at once, in either variant
InitConc ==
  /\ InitServer /\ EnvOk(env) /\ github = Changing
  /\ variant \in {"server.js", "part_000"}

NextConc ==
  \/ Tick
  \/ \E c \in Clients : ConcPost(c)
  \/ \E c \in Clients : ConcLegacyId(c)
  \/ \E c \in Clients : ConcRespond(c)

SpecConc ==
  /\ InitConc
  /\ [][NextConc]_vars

\* the temporary files of build requests in flight at once, in the variants
\* that keep files on disk
InitTmp ==
  /\ InitServer /\ EnvOk(env) /\ github = Changing
  /\ variant \in TmpVariants

NextTmp ==
  \/ Tick
  \/ \E c \in Clients : TmpReceive(c)
  \/ \E c \in Clients : TmpFirstUpload(c)
  \/ \E c \in Clients : TmpWriteZip(c)
  \/ \E c \in Clients : TmpSecondUpload(c)
  \/ \E c \in Clients : TmpFinish(c)

SpecTmp == InitTmp /\ [][NextTmp]_vars

\* part_010, the version detection of one build request
InitVer == InitServer /\ EnvOk(env) /\ github = Changing /\ variant = "part_010"

NextVer ==
  \/ VerArrive
  \/ VerDetect

SpecVer == InitVer /\ [][NextVer]_vars

\* ================================================================== claims
Responded == resp.status # 0
CallsOf(api) == {i \in DOMAIN calls : calls[i].api = api}
Is2xx(n) == n \in 200..299
ErrorCode(code) == resp.status >= 400 /\ resp.body.code = code
BuildSucceeded == kind = "build" /\ resp.status = 200 /\ resp.body.success

\* every check the build handler makes before the first upload passes
InputValid ==
  /\ mwErr = NoError
  /\ env.owner /\ env.repo /\ env.token
  /\ ~Falsy(req.appName) /\ ~Falsy(req.packageName)
  /\ isValidPackageName(req.packageName)
  /\ files.icon # NoFile /\ files.projectZip # NoFile
  /\ files.icon.size <= MAX_ICON_SIZE

\* C1: the three steps of a build request happen in order: the icon upload is
\* the first outbound call and is made only when every check passed, the ZIP
\* upload is the second and follows a successful icon upload, the dispatch is
\* the third and follows two successful uploads.
C1_PipelineOrder ==
  kind = "build" =>
    \A i \in DOMAIN calls :
      /\ calls[i].api = "icon" => i = 1 /\ InputValid
      /\ calls[i].api = "zip" =>
           i = 2 /\ calls[1].api = "icon" /\ calls[1].url # 0
      /\ calls[i].api = "dispatch" =>
           /\ i = 3
           /\ calls[1].api = "icon" /\ calls[1].url # 0
           /\ calls[2].api = "zip" /\ calls[2].url # 0

C1_Witness ==
  kind = "build" /\ Len(calls) = 3 /\ calls[3].api = "dispatch"

\* C3 as claimed: every upstream failure (a failed icon upload, a failed ZIP
\* upload, a dispatch that is answered outside 2xx or not answered at all)
\* yields 500 with the code of its step and ends the request; success is sent
\* only after two successful uploads and a 2xx dispatch.
C3_StepSpecificCode ==
  kind = "build" /\ Responded =>
    /\ \A i \in CallsOf("icon") :
         calls[i].url = 0 =>
           /\ resp.status = 500 /\ ErrorCode("CLOUDINARY_ICON_FAIL")
           /\ CallsOf("zip") = {} /\ CallsOf("dispatch") = {}
    /\ \A i \in CallsOf("zip") :
         calls[i].url = 0 =>
           /\ resp.status = 500 /\ ErrorCode("CLOUDINARY_ZIP_FAIL")
           /\ CallsOf("dispatch") = {}
    /\ \A i \in CallsOf("dispatch") :
         ~Is2xx(calls[i].status) =>
           resp.status = 500 /\ ErrorCode("GITHUB_DISPATCH_FAILED")
    /\ BuildSucceeded =>
         /\ \E i \in CallsOf("icon") : calls[i].url # 0
         /\ \E i \in CallsOf("zip") : calls[i].url # 0
         /\ \E i \in CallsOf("dispatch") : Is2xx(calls[i].status)

\* C3 amended: as claimed, except that a dispatch that is not answered at all
\* (axios.post throws) yields 500 with the general code SERVER_ERROR.
C3_UpstreamFailureCodes ==
  kind = "build" /\ Responded =>
    /\ \A i \in CallsOf("icon") :
         calls[i].url = 0 =>
           /\ resp.status = 500 /\ ErrorCode("CLOUDINARY_ICON_FAIL")
           /\ CallsOf("zip") = {} /\ CallsOf("dispatch") = {}
    /\ \A i \in CallsOf("zip") :
         calls[i].url = 0 =>
           /\ resp.status = 500 /\ ErrorCode("CLOUDINARY_ZIP_FAIL")
           /\ CallsOf("dispatch") = {}
    /\ \A i \in CallsOf("dispatch") :
         /\ calls[i].status # 0 /\ ~Is2xx(calls[i].status) =>
              resp.status = 500 /\ ErrorCode("GITHUB_DISPATCH_FAILED")
         /\ calls[i].status = 0 =>
              resp.status = 500 /\ ErrorCode("SERVER_ERROR")
    /\ BuildSucceeded =>
         /\ \E i \in CallsOf("icon") : calls[i].url # 0
         /\ \E i \in CallsOf("zip") : calls[i].url # 0
         /\ \E i \in CallsOf("dispatch") : Is2xx(calls[i].status)

C3_Witness ==
  /\ kind = "build" /\ Responded
  /\ \E i \in CallsOf("dispatch") : calls[i].status = 0
  /\ ErrorCode("SERVER_ERROR")

\* C5: when both uploads of a build request succeeded and the handler is done,
\* exactly one dispatch was posted; its client_payload carries the two
\* secure_urls the uploads of this request returned, package_name and
\* display_name as sent, app_name = sanitizeFilename(appName) (" My--App"
\* gives "my_app"), and the request_id that ends both public_ids and is the
\* build_id of the success response.
C5_DispatchPayload ==
  /\ kind = "build" /\ pc = "done"
  /\ \E i \in CallsOf("icon") : calls[i].url # 0
  /\ \E i \in CallsOf("zip") : calls[i].url # 0
  =>
  /\ Cardinality(CallsOf("dispatch")) = 1
  /\ \A d \in CallsOf("dispatch"), i \in CallsOf("icon"), z \in CallsOf("zip") :
       LET p == calls[d].payload.client_payload IN
       /\ p.icon_url = calls[i].url
       /\ p.zip_url = calls[z].url
       /\ p.package_name = req.packageName
       /\ p.display_name = req.appName
       /\ p.app_name = sanitizeFilename(req.appName)
       /\ req.appName = <<" ","M","y","-","-","A","p","p">> =>
            p.app_name = <<"m","y","_","a","p","p">>
       /\ p.request_id = requestId
       /\ EndsWith(calls[i].public_id, p.request_id)
       /\ EndsWith(calls[z].public_id, p.request_id)
       /\ BuildSucceeded => resp.body.build_id = p.request_id

C5_Witness ==
  /\ BuildSucceeded
  /\ Len(calls) = 3
  /\ calls[3].payload.client_payload.icon_url # calls[3].payload.client_payload.zip_url

\* C7: the status handler answers completed:true, status 'success' only when
\* the run it found matches buildId, is completed with conclusion success,
\* the release build-<buildId> was fetched with status 200 and has an asset
\* whose name ends in ".apk"; download_url is such an asset's
\* browser_download_url.
C7_SuccessOnlyWithApk ==
  kind = "status" /\ resp.status = 200 /\ resp.body.completed
    /\ resp.body.status = "success"
  =>
  /\ RunMatches(run, buildId)
  /\ run.status = "completed" /\ run.conclusion = "success"
  /\ \E c \in CallsOf("release") :
       /\ calls[c].tag = <<"b","u","i","l","d","-">> \o buildId
       /\ calls[c].status = 200
  /\ release.status = 200
  /\ \E a \in DOMAIN release.assets :
       /\ EndsWith(release.assets[a].name, <<".","a","p","k">>)
       /\ resp.body.download_url = release.assets[a].browser_download_url
       /\ \A b \in 1..(a - 1) :
            ~EndsWith(release.assets[b].name, <<".","a","p","k">>)

C7_Witness ==
  /\ kind = "status" /\ resp.status = 200 /\ resp.body.completed
  /\ resp.body.status = "success"
  /\ Len(release.assets) = 2
  /\ ~EndsWith(release.assets[1].name, <<".","a","p","k">>)

\* C8: within one build request each upstream call (icon upload, ZIP upload,
\* dispatch) is made at most once, also when it failed.
C8_AtMostOnce ==
  kind = "build" =>
    \A api \in {"icon", "zip", "dispatch"} : Cardinality(CallsOf(api)) <= 1

C8_Witness ==
  /\ kind = "build" /\ pc = "done"
  /\ \E d \in CallsOf("dispatch") : ~Is2xx(calls[d].status)

\* C9 as claimed: when a query of the status handler fails with anything but
\* "release not found" (404), the handler answers with a 5xx status.
C9_UpstreamFailureIs5xx ==
  /\ kind = "status" /\ Responded
  /\ \/ \E c \in CallsOf("runs") : ~calls[c].ok
     \/ \E c \in CallsOf("release") : calls[c].status \notin {200, 404}
  => resp.status >= 500

\* C10 as claimed: with one of owner, repo, token unset, every answer to a
\* build or status request is 500 MISSING_ENV and no outbound call is made.
C10_MissingEnvAlways ==
  Responded /\ ~(env.owner /\ env.repo /\ env.token) =>
    /\ resp.status = 500 /\ ErrorCode("MISSING_ENV")
    /\ calls = <<>>

\* C10 amended: with one of owner, repo, token unset no outbound call is ever
\* made; a status request is answered 500 MISSING_ENV, and so is a build
\* request unless multer rejected the upload, which the error middleware
\* answers with its own status and code.
C10_MissingEnv ==
  ~(env.owner /\ env.repo /\ env.token) =>
    /\ calls = <<>>
    /\ Responded =>
         IF kind = "build" /\ mwErr # NoError
         THEN /\ resp.status \in {400, 413, 500}
              /\ resp.body.code \in
                   {"FILE_TOO_LARGE", "UNEXPECTED_FIELD", "UPLOAD_ERROR",
                    "SERVER_ERROR"}
         ELSE resp.status = 500 /\ ErrorCode("MISSING_ENV")

C10_Witness ==
  /\ kind = "build" /\ Responded
  /\ env.owner /\ ~env.repo /\ env.token
  /\ files.icon # NoFile /\ files.projectZip # NoFile
  /\ ErrorCode("MISSING_ENV")

\* a build request that lacks appName, packageName, the icon or the archive
LacksField ==
  \/ Falsy(req.appName) \/ Falsy(req.packageName)
  \/ \A i \in DOMAIN req.parts : req.parts[i].field # "icon"
  \/ \A i \in DOMAIN req.parts : req.parts[i].field # "projectZip"

\* C2: a build request that lacks appName, packageName, the icon file or the
\* project archive is answered with a 4xx status and causes no upstream call
\* (stated for the requests the upload middleware lets through to the handler).
C2_MissingFieldIs4xx ==
  (kind = "build" /\ LacksField /\ mwErr = NoError) =>
    /\ calls = <<>>
    /\ Responded => resp.status \in 400..499

\* C4: every error response (status 400 or above) has a body that carries a
\* code and a message (stated for the responses the handlers send themselves).
C4_ErrorBodyHasCode ==
  resp.status >= 400 /\ mwErr = NoError =>
    "code" \in DOMAIN resp.body /\ "error" \in DOMAIN resp.body

\* C6: any two distinct build requests, also when handled in the same
\* millisecond, are given distinct build identifiers (stated for part_000,
\* whose identifier is the clock alone).
C6_DistinctBuildIds ==
  variant = "part_000" =>
    \A c, d \in Clients :
      (c # d /\ cid[c] # <<>> /\ cid[d] # <<>>) => cid[c] # cid[d]

\* C11: in the POST /build-flutter handler of server.js every response is
\* sent only after cleanupTemp(req.tempDir) has returned, and the response
\* sent is the one the exit path had chosen: the cleanup step, also when
\* fs.rm fails, leaves it as it was.
C11_CleanupBeforeResponse ==
  [][ /\ (kind = "build" /\ mwErr = NoError /\ resp' # resp /\ resp'.status # 0)
         => (cleaned /\ resp' = out)
      /\ (kind = "build" /\ pc = "cleanup" /\ pc' # pc)
         => (cleaned' /\ out' = out) ]_vars

C11_Witness ==
  /\ kind = "build" /\ pc = "done" /\ mwErr = NoError
  /\ cleaned /\ tempDir \in dirs
  /\ resp.status = 200 /\ resp.body.success

\* C12: when the response to a build request is sent, every temporary
\* directory that createTempDir made for the request is gone (unless the
\* removal itself was tried and failed).
C12_TempDirsRemoved ==
  (kind = "build" /\ Responded /\ ~(cleaned /\ tempDir \in dirs))
    => dirs = {}

\* what the claim calls a valid package name: a non-empty string that starts
\* with an ASCII letter and otherwise holds only letters, digits, "_" and "."
PackageShape(p) ==
  /\ p # <<>>
  /\ p[1] \in Range(LowerSeq) \cup Range(UpperSeq)
  /\ Range(p) \subseteq
       Range(LowerSeq) \cup Range(UpperSeq) \cup Range(DigitSeq) \cup {"_", "."}

\* the handler makes its checks on a request whose other fields are fine
PackageCheck ==
  /\ kind = "build" /\ pc = "handler" /\ pc' # pc
  /\ EnvOk(env) /\ ~Falsy(req.appName)

Answers400(o, code) == o.status = 400 /\ o.body.code = code

\* C13 as claimed: isValidPackageName(pkg) is true exactly for the strings of
\* that shape, every other packageName is answered 400 INVALID_PACKAGE and
\* the handler goes on for every such string.
C13_InvalidPackageAlways ==
  [][ PackageCheck =>
        LET p == req.packageName IN
        /\ isValidPackageName(p) <=> (p # Undefined /\ PackageShape(p))
        /\ (p # Undefined /\ PackageShape(p))
             => ~Answers400(out', "INVALID_PACKAGE")
        /\ ~(p # Undefined /\ PackageShape(p))
             => Answers400(out', "INVALID_PACKAGE") ]_vars

\* C13, amended: isValidPackageName(pkg) is true exactly when the text
\* String(pkg) has that shape; with the environment set and appName given,
\* an absent or empty packageName is answered 400 MISSING_FIELDS, every other
\* packageName not of that shape 400 INVALID_PACKAGE, and for every
\* packageName of that shape the handler goes on to the file checks.
C13_PackageName ==
  [][ PackageCheck =>
        LET p == req.packageName IN
        /\ isValidPackageName(p) <=> PackageShape(JsString(p))
        /\ Falsy(p) => Answers400(out', "MISSING_FIELDS")
        /\ (~Falsy(p) /\ ~PackageShape(p))
             => Answers400(out', "INVALID_PACKAGE")
        /\ (~Falsy(p) /\ PackageShape(p)) =>
             \/ pc' = "icon" /\ out' = NoResp
             \/ Answers400(out', "MISSING_FILES") ]_vars

C13_Witness ==
  /\ kind = "build" /\ pc = "done" /\ EnvOk(env) /\ ~Falsy(req.appName)
  /\ Answers400(resp, "INVALID_PACKAGE")
  /\ Len(req.packageName) = MaxPkgLen
  /\ IsLetter(req.packageName[1])

\* the runs query was answered and the handler has responded
StatusAnswered ==
  /\ kind = "status" /\ pc = "done"
  /\ \E c \in CallsOf("runs") : calls[c].ok

\* the runs of the list that name the build id, in the title or the message
NamesBuild(r, id) ==
  \/ r.display_title # Undefined /\ Includes(r.display_title, id)
  \/ r.message # Undefined /\ Includes(r.message, id)

\* C14: when the runs query succeeds, the answer is: no run names buildId:
\* completed false, status pending, progress 5; the first run that names it
\* is completed with conclusion failure: completed true, status failed; that
\* run is in any other state and no success is answered: completed false,
\* the run's status, progress 50 when in_progress and 10 otherwise.
C14_StatusAnswers ==
  StatusAnswered =>
    LET own == {i \in DOMAIN github.runs : NamesBuild(github.runs[i], buildId)}
        b == resp.body
    IN
    /\ resp.status = 200
    /\ own = {} =>
         /\ ~b.completed /\ b.status = "pending" /\ b.progress = 5
    /\ own # {} =>
         LET r == github.runs[CHOOSE i \in own : \A j \in own : i <= j] IN
         /\ (r.status = "completed" /\ r.conclusion = "failure")
              => (b.completed /\ b.status = "failed")
         /\ (~(r.status = "completed" /\ r.conclusion = "failure")
               /\ b.status # "success")
              => /\ ~b.completed
                 /\ b.status = r.status
                 /\ b.progress = IF r.status = "in_progress" THEN 50 ELSE 10
         /\ b.status = "success"
              => (r.status = "completed" /\ r.conclusion = "success")

C14_Witness ==
  /\ StatusAnswered
  /\ Len(github.runs) = 2
  /\ ~NamesBuild(github.runs[1], buildId)
  /\ NamesBuild(github.runs[2], buildId)
  /\ github.runs[2].status = "completed"
  /\ github.runs[2].conclusion = "success"
  /\ ~resp.body.completed /\ resp.body.progress = 10

\* C15: once the run of a build is completed and the CI platform no longer
\* changes, every status answer for that build says completed true.
C15_CompletedRunEndsPolling ==
  (StatusAnswered /\ run # NoRun /\ run.status = "completed")
    => (resp.status = 200 /\ resp.body.completed)

\* the runs of the list that belong to the build id, in the order listed
OwnRuns(runs, id) == SelectSeq(runs, LAMBDA r : NamesBuild(r, id))

\* C16: the answer for a build is the one the handler would give were only
\* that build's own runs listed: the runs of other builds change nothing
\* (part_005).
C16_OtherRunsIgnored ==
  (StatusAnswered /\ variant = "part_005") =>
    resp = Part005Reply(LatestRun(OwnRuns(github.runs, buildId)),
                        github.release)

\* the same for server.js
IsolatedInServer ==
  (StatusAnswered /\ variant = "server.js") =>
    LET r == FindRun(OwnRuns(github.runs, buildId), buildId) IN
    resp = StatusReply(buildId, r,
                       IF NeedsRelease(r) THEN github.release ELSE NoRelease)

\* a step of the handler of POST /upload/complete/:uploadId
CompleteStep == kind = "complete" /\ pc = "merge" /\ pc' = "done"

\* the names chunk-0 .. chunk-(total-1)
NeededChunks(total) == {chunkName(DecStr(i)) : i \in 0..(total - 1)}

\* C17: a completion succeeds only when chunk-0 .. chunk-(totalChunks-1) are
\* all there, and the merged file then holds their data in ascending index
\* order; a chunk stored under an index replaces the one stored before, the
\* other chunks staying as they are.
C17_MergeInOrder ==
  [][ /\ (CompleteStep /\ resp'.status = 200) =>
           LET dir == chunks[upload.id]
               n == IF upload.total < 0 THEN 0 ELSE upload.total
           IN
           /\ NeededChunks(upload.total) \subseteq DOMAIN dir
           /\ merged'[upload.id].exists
           /\ Len(merged'[upload.id].data) = n
           /\ \A j \in 1..n :
                merged'[upload.id].data[j] = dir[chunkName(DecStr(j - 1))]
      /\ (kind = "chunk" /\ pc = "store" /\ resp'.status = 200
            /\ upload.part.kind = "file") =>
           LET name == chunkName(upload.index) IN
           /\ DOMAIN chunks'[upload.id] = DOMAIN chunks[upload.id] \cup {name}
           /\ chunks'[upload.id][name] = upload.part.data
           /\ \A m \in DOMAIN chunks[upload.id] \ {name} :
                chunks'[upload.id][m] = chunks[upload.id][m] ]_vars

C17_Witness ==
  /\ kind = "complete" /\ pc = "done" /\ resp.status = 200
  /\ upload.total = MaxIndex + 1
  /\ merged[upload.id].data[1] # merged[upload.id].data[2]

\* C18: a completion that finds one of chunk-0 .. chunk-(totalChunks-1)
\* missing answers 500 MERGE_ERROR and leaves the merged file and the chunks
\* as they were; with all of them there it does not answer that a chunk is
\* missing.
C18_MissingChunkKeepsState ==
  [][ CompleteStep =>
        IF NeededChunks(upload.total) \subseteq DOMAIN chunks[upload.id]
        THEN resp'.status = 200 \/ resp'.body.error # "Missing chunk"
        ELSE /\ resp'.status = 500
             /\ resp'.body.code = "MERGE_ERROR"
             /\ resp'.body.error = "Missing chunk"
             /\ merged' = merged
             /\ chunks' = chunks ]_vars

C18_Witness ==
  /\ kind = "complete" /\ pc = "done"
  /\ resp.status = 500 /\ resp.body.error = "Missing chunk"
  /\ chunkName(DecStr(0)) \in DOMAIN chunks[upload.id]
  /\ ~merged[upload.id].exists

\* C19: a chunk posted under an index of MAX_CHUNKS or more is refused and
\* not stored, and so is a completion whose totalChunks exceeds MAX_CHUNKS;
\* no upload holds more than MAX_CHUNKS chunks.
C19_ChunkLimit ==
  /\ (kind = "chunk" /\ Responded /\ upload.part.kind = "file"
        /\ parseInt(upload.index) >= MAX_CHUNKS)
       => resp.status >= 400
  /\ (kind = "complete" /\ Responded /\ upload.total > MAX_CHUNKS)
       => resp.status >= 400
  /\ \A u \in UploadIds :
       /\ Cardinality(DOMAIN chunks[u]) <= MAX_CHUNKS
       /\ \A ix \in ChunkIndexes :
            chunkName(ix) \in DOMAIN chunks[u] => parseInt(ix) < MAX_CHUNKS

\* C20: once one client has posted RATE_LIMIT_MAX build requests inside a
\* window, a further request of the client inside the window makes no
\* upstream call and is answered with an error.
C20_RateLimit ==
  (kind = "build" /\ served > RATE_LIMIT_MAX) =>
    /\ calls = <<>>
    /\ iconUpload = 0
    /\ Responded => resp.status >= 400

\* the bytes a request has uploaded are the bytes that request received
SentOwn(c) ==
  /\ sent[c].icon \in {NoBytes, Bytes(c, "icon")}
  /\ sent[c].zip \in {NoBytes, Bytes(c, "zip")}

\* while a request is under way, the files at its paths are there and hold
\* its bytes
FilesOwn(c) ==
  tpc[c] \in {"stored", "written", "second"} =>
    /\ tpath[c].icon # <<>> =>
         /\ tpath[c].icon \in DOMAIN tmp
         /\ tmp[tpath[c].icon] = Bytes(c, "icon")
    /\ tpath[c].zip # <<>> =>
         /\ tpath[c].zip \in DOMAIN tmp
         /\ tmp[tpath[c].zip] = Bytes(c, "zip")

\* C21: build requests handled at once do not overwrite or delete each
\* other's temporary files, and each uploads the icon and archive bytes it
\* received itself, also when they arrive in one millisecond or carry files
\* of one original name.
C21_OwnTempFiles == \A c \in Clients : SentOwn(c) /\ FilesOwn(c)

\* the same of server.js alone
TmpIsolatedInServer == variant = "server.js" => C21_OwnTempFiles

\* a version text: numbers separated by single dots
RECURSIVE IsVersionText(_)
IsVersionText(v) ==
  LET n == TakeWhile(v, DigitChars)
      rest == SubSeq(v, Len(n) + 1, Len(v))
  IN
  /\ n # <<>>
  /\ rest = <<>> \/ (Head(rest) = "." /\ IsVersionText(Tail(rest)))

\* the major and the minor number of a version text, the minor 0 when absent
MajorOf(v) == parseInt(TakeWhile(v, DigitChars))
MinorText(v) ==
  LET rest == SubSeq(v, Len(TakeWhile(v, DigitChars)) + 1, Len(v)) IN
  IF rest = <<>> THEN <<>> ELSE TakeWhile(Tail(rest), DigitChars)
MinorOf(v) == parseInt(MinorText(v))

\* version v is at least major.minor
VersionAtLeast(v, major, minor) ==
  \/ MajorOf(v) > major
  \/ MajorOf(v) = major /\ MinorOf(v) >= minor

\* the Flutter version the table gives for a required Dart version
VersionOfDart(v) ==
  IF VersionAtLeast(v, 3, 5) THEN "3.24.0"
  ELSE IF VersionAtLeast(v, 3, 3) THEN "3.22.0"
  ELSE IF VersionAtLeast(v, 3, 0) THEN "3.16.0"
  ELSE IF VersionAtLeast(v, 2, 12) THEN "3.7.0"
  ELSE "3.24.0"

\* the lower bound of the Dart SDK constraint in the first pubspec.yaml entry
\* of the archive that is not under __MACOSX; <<>> when there is none
DartLowerBound(buf) ==
  IF ~buf.readable THEN <<>>
  ELSE LET pubspec == FindPubspec(buf.entries, 1) IN
       IF pubspec.found THEN SdkMatch(pubspec.data) ELSE <<>>

\* C22: detectFlutterVersion of part_010 returns the version the table gives
\* for the Dart SDK lower bound of the first pubspec.yaml entry outside
\* __MACOSX, the bound compared as a version, and '3.24.0' when there is no
\* such bound.
C22_VersionTable ==
  vpc = "done" =>
    LET v == DartLowerBound(zipBuffer) IN
    /\ v = <<>> => flutterVersion = "3.24.0"
    /\ IsVersionText(v) => flutterVersion = VersionOfDart(v)

\* the same for the bounds whose minor number is one digit and that are at
\* least 2.12 or below 2.0, where the two orders agree
VersionTableOneDigit ==
  vpc = "done" =>
    LET v == DartLowerBound(zipBuffer) IN
    (/\ IsVersionText(v) /\ Len(MinorText(v)) <= 1
     /\ VersionAtLeast(v, 3, 0) \/ MajorOf(v) < 2)
      => flutterVersion = VersionOfDart(v)

====
